---- MODULE Spec2Model ----
(***************************************************************************)
(* Zero-copy GPU buffer bridge of mediapipe (GStreamer / DMA-buf variant). *)
(*                                                                         *)
(* Eight state machines are modelled, each with its own specification:     *)
(*   Spec        GpuBufferToImageFrameCalculator: the DMA bundle recycler, *)
(*               the output ImageFrames and their deleters, Close, and the *)
(*               GPU finishing the render behind each producer fence.      *)
(*   WaitSpec    the fence API of GlCalculatorHelperImpl                   *)
(*               (SetEGLSync / WaitEGLSync / DestroyEGLSync) driven by a   *)
(*               caller that owns one EGLSync variable.                    *)
(*   AdapterSpec GstWrapper::HandlePadProbeBuffer, the pad probe that      *)
(*               swaps camera buffers for compute-graph output.            *)
(*   DmaSpec     one DmaTexture from construction to destruction, over the *)
(*               DMA API of GlCalculatorHelperImpl (CreateEGLImageDMA,     *)
(*               MapDMA, UnmapDMA, DestroyEGLImageDMA) and its fence.      *)
(*   GlSpec      the texture and framebuffer API of GlCalculatorHelperImpl *)
(*               (CreateSourceTexture, CreateDestinationTexture,           *)
(*               BindFramebuffer, ReadTexture) over one GL context.        *)
(*   InputSpec   the two places that take frames in: the pad probe and     *)
(*               CreateSourceTexture.                                      *)
(*   CamSpec     SimpleGstCamera: the capture callback and GetFrame over   *)
(*               the one-buffer mailbox.                                   *)
(*   TimestampSpec the two places that stamp packets for the graph: the    *)
(*               pad probe and the frame loop of RunMPPGraph (CPU demo).   *)
(***************************************************************************)
EXTENDS Integers, Sequences, FiniteSets, TLC

\* ------------------------------------------------------------------ bounds
\* Number of Process calls with a GpuBuffer input (= output frames made).
MaxFrames == 2
\* Number of EGL fence objects the platform hands out.
MaxSyncs == 3
\* eglClientWaitSync attempts of one wait are counted modulo MaxAttempts + 1.
MaxAttempts == 3
\* Number of buffers the upstream pipeline pushes through the pad probe.
MaxBuffers == 3
\* Highest descriptor number the kernel hands out.
MaxFd == 2
\* Number of DmaTextures constructed one after the other.
MaxDma == 2
\* Number of GL textures the helper maps.
MaxTextures == 2
\* Number of samples the camera pipeline delivers.
MaxSamples == 3

\* ------------------------------------------------------------- value sets
NoBundle == 0          \* nullptr for DmaTexture*
EGL_NO_SYNC == 0
EGL_NO_IMAGE == 0
nullptr == 0
MAP_FAILED == -1
FrameIds == 1..MaxFrames
BundleIds == 1..MaxFrames
SyncIds == 1..MaxSyncs

\* GpuBufferFormat values CreateEGLImageDMA accepts.
Formats == {"kBGRA32", "kRGB24"}
Widths == {2}
Heights == {1, 2}
\* (width, height, format) of a GpuBuffer.
Keys == [w : Widths, h : Heights, fmt : Formats]
NoKey == [w |-> 0, h |-> 0, fmt |-> "none"]

\* Results of glCheckFramebufferStatus.
FbStatuses == {"GL_FRAMEBUFFER_COMPLETE",
               "GL_FRAMEBUFFER_INCOMPLETE_ATTACHMENT"}

\* Bytes per pixel of the GBM format chosen for a GpuBufferFormat
\* (GBM_FORMAT_ABGR8888 / GBM_FORMAT_BGR888).
BytesPerPixel(fmt) == IF fmt = "kBGRA32" THEN 4 ELSE 3

\* gbm_bo_get_stride of a linear buffer object of the given width.
Stride(w, fmt) == w * BytesPerPixel(fmt)

VARIABLES
  \* ---- GpuBufferToImageFrameCalculator
  dma_texture_,   \* the idle slot: a bundle id or NoBundle
  bundles,        \* every DmaTexture ever allocated, by id
  nBundles,       \* number of CreateEGLImageDMA calls so far
  frames,         \* every output ImageFrame made from a GpuBuffer, by id
  nFrames,        \* number of such frames so far
  closed,         \* Close has run
  lastStatus,     \* status returned by the last Process call
  hist,           \* what the GpuBuffer inputs so far were like
  fb_status,      \* last glCheckFramebufferStatus result seen by Process
  procLast,       \* the last Process call: input packet, commands, outputs
  eglSyncs,       \* platform fence objects, by id
  waited,         \* fences on which a client wait returned CONDITION_SATISFIED
  \* ---- caller of the fence API
  sync,           \* the caller's EGLSync variable
  waitPc,         \* position inside WaitEGLSync
  waitRes,        \* last result of eglClientWaitSync
  waitAttempts,   \* eglClientWaitSync calls of the current wait, counted
                  \* modulo MaxAttempts + 1 (the code keeps no count)
  waitObserved,   \* what WaitEGLSync handed back to its caller
  \* ---- GstWrapper pad probe
  adPc,           \* per-frame state of HandlePadProbeBuffer
  pipeline,       \* GStreamer pipeline state
  graph,          \* compute graph: running or done
  in_buf,         \* the intercepted buffer
  in_buf_ref,     \* references the probe holds on in_buf
  info_data,      \* which buffer the probe info carries downstream
  frame_timestamp_,
  graphIn,        \* packets submitted and not yet processed by the graph
  graphOut,       \* output packets waiting in the poller
  nBuffers,       \* buffers that entered the probe so far
  nSubmits,       \* AddPacketToInputStream calls of the current invocation
  nPolls,         \* poller.Next calls that returned, current invocation
  out_packet,     \* the packet poller.Next filled in
  out_buf,        \* the replacement buffer
  outMem,         \* per buffer: the output packet and the GL memory around it
  \* ---- one DmaTexture and the platform objects behind it
  dma,            \* the DmaTexture (its sync member is the variable sync)
  plat,           \* descriptors, images, mappings and call counts
  dmaPc,          \* none, ready, dtor, dead or fatal
  dtorAt,         \* statements of ~DmaTexture executed so far
  lastCall,       \* inputs of the last CreateEGLImageDMA / MapDMA
  \* ---- texture / framebuffer API of GlCalculatorHelperImpl
  framebuffer_,   \* the helper's framebuffer object, 0 for none
  nGenFramebuffers, \* framebuffer objects generated so far
  glBound,        \* GL_FRAMEBUFFER_BINDING
  glAttach,       \* color attachment 0 of the bound framebuffer
  glViewport,     \* GL_VIEWPORT
  textures,       \* GL textures by name
  nTextures,      \* textures handed out so far
  lastTexture,    \* the GlTexture the last call returned or was given
  glLast,         \* the last call: name, GL commands issued, argument
  glPc,           \* ok, or fatal after a failed CHECK
  \* ---- SimpleGstCamera
  camVariant,     \* which program the camera is part of
  buffer_,        \* the mailbox slot
  mutex_,         \* holder of the mutex
  cbPc,           \* position of the streaming thread in HandleNewSample
  new_buffer,     \* HandleNewSample's local
  appPc,          \* position of the application thread in GetFrame
  buffer,         \* GetFrame's local
  refs,           \* reference count of each buffer
  nSamples,       \* samples pulled so far
  lastStored,     \* the buffer stored into the slot last
  framesHeld,     \* buffers wrapped by a live ImageFrame
  returned,       \* how many GetFrame calls returned each buffer
  frame,          \* what the last GetFrame call returned a frame of
  \* ---- the frame loop of RunMPPGraph (CPU demo)
  loopPc,         \* position of the loop
  frame_timestamp,
  cpuIn           \* timestamps of the packets the loop gave to the graph

calcVars == <<dma_texture_, bundles, nBundles, frames, nFrames, closed,
              lastStatus, hist, fb_status,
              procLast>>
fenceVars == <<eglSyncs, waited>>
waitVars == <<sync, waitPc, waitRes, waitAttempts, waitObserved>>
adapterVars == <<adPc, pipeline, graph, in_buf, in_buf_ref, info_data,
                 frame_timestamp_, graphIn, graphOut, nBuffers, nSubmits,
                 nPolls, out_packet, out_buf, outMem>>
resVars == <<dma, plat, dmaPc, dtorAt, lastCall>>
glVars == <<framebuffer_, nGenFramebuffers, glBound, glAttach, glViewport,
            textures, nTextures, lastTexture, glLast, glPc>>
camVars == <<camVariant, buffer_, mutex_, cbPc, new_buffer, appPc, buffer,
             refs, nSamples, lastStored, framesHeld, returned, frame>>
loopVars == <<loopPc, frame_timestamp, cpuIn>>
vars == <<calcVars, fenceVars, waitVars, adapterVars, resVars, glVars,
          camVars, loopVars>>


\* ============================================================ fence objects
\* eglCreateSync hands out a fence object not handed out before.
NewSync(tbl) == CHOOSE s \in SyncIds :
                  tbl[s] = "free" /\ \A t \in SyncIds : tbl[t] = "free" => s <= t

HaveFreeSync(tbl) == \E s \in SyncIds : tbl[s] = "free"

\* GlCalculatorHelperImpl::DestroyEGLSync: the fence table afterwards (the
\* caller's variable becomes EGL_NO_SYNC).
DestroyEGLSync(tbl, s) ==
  IF s # EGL_NO_SYNC THEN [tbl EXCEPT ![s] = "destroyed"] ELSE tbl

\* GlCalculatorHelperImpl::SetEGLSync: destroys the previous fence, then
\* creates a new one in the current command stream.
SetEGLSync_NoDestroy(tbl, s) ==
  LET n == NewSync(tbl)
  IN  [tbl |-> [tbl EXCEPT ![n] = "pending"], sync |-> n]
SetEGLSync(tbl, s) ==
  LET t1 == DestroyEGLSync(tbl, s)
      n  == NewSync(t1)
  IN  [tbl |-> [t1 EXCEPT ![n] = "pending"], sync |-> n]

\* The GPU reaches the fence in its command stream.
GpuSignal(s) ==
  /\ eglSyncs[s] = "pending"
  /\ eglSyncs' = [eglSyncs EXCEPT ![s] = "signaled"]
  /\ UNCHANGED <<calcVars, waited, waitVars, adapterVars, resVars, glVars, camVars,
                 loopVars>>

\* The platform loses the fence before the GPU reaches it (context loss):
\* waits on it fail from then on.
GpuLost(s) ==
  /\ eglSyncs[s] = "pending"
  /\ eglSyncs' = [eglSyncs EXCEPT ![s] = "lost"]
  /\ UNCHANGED <<calcVars, waited, waitVars, adapterVars, resVars, glVars, camVars,
                 loopVars>>

\* ====================================== GpuBufferToImageFrameCalculator
NoFrame == [st |-> "none", bundle |-> NoBundle, key |-> NoKey, stride |-> 0,
            sync |-> EGL_NO_SYNC, read |-> FALSE]
\* An ImageFrame that has been destroyed.
ReleasedFrame == [NoFrame EXCEPT !.st = "released"]
UnallocBundle == [st |-> "unalloc", key |-> NoKey, stride |-> 0,
                  map_size |-> 0, sync |-> EGL_NO_SYNC, cpu |-> FALSE]

\* The process has not been ended by a trap.
Running == lastStatus # "crashed"

\* Output frames whose deleter has not run yet.
Outstanding == {f \in FrameIds : frames[f].st \in {"held", "releasing"}}

\* Process, line 144: the cached bundle is taken whenever the slot is set.
CanRecycle_Never == FALSE
CanRecycle == dma_texture_ # NoBundle

\* Process, line 146: the slot is emptied when its bundle is taken.
SlotAfterTake_Kept == dma_texture_
SlotAfterTake == NoBundle

\* struct DmaTexture as set up by Process lines 148-164.
NewDmaTexture(key) ==
  [st |-> "live", key |-> key, stride |-> Stride(key.w, key.fmt),
   map_size |-> key.h * Stride(key.w, key.fmt), sync |-> EGL_NO_SYNC,
   cpu |-> FALSE]

\* DmaTexture::~DmaTexture on bundle b: the bundle table afterwards.
DeleteDmaTexture(bs, b) ==
  [bs EXCEPT ![b] = [UnallocBundle EXCEPT !.st = "destroyed"]]

\* GlCalculatorHelperImpl::BeginCpuAccessDMA(dma_fd, read, !write) and
\* EndCpuAccessDMA on the descriptor of a bundle: DMA_BUF_IOCTL_SYNC with
\* SYNC_START / SYNC_END opens and closes the CPU access window.
BeginCpuAccessDMA(b) == [b EXCEPT !.cpu = TRUE]
EndCpuAccessDMA_Skipped(b) == b
EndCpuAccessDMA(b) == [b EXCEPT !.cpu = FALSE]

\* Process, lines 167-168: CHECK_EQ(glCheckFramebufferStatus(...),
\* GL_FRAMEBUFFER_COMPLETE) on the bundle's framebuffer.
FramebufferCheck(status) == status = "GL_FRAMEBUFFER_COMPLETE"

\* Timestamps of the input packets of Process.
InputTimestamps == {0, 1}

\* ImageFormatForGpuBufferFormat: the ImageFormat of the output frame.
ImageFormatForGpuBufferFormat(format) ==
  CASE format = "kBGRA32" -> "SRGBA"
    [] format = "kRGB24"  -> "SRGB"
    [] OTHER              -> "UNKNOWN"

\* Input packets of Process: an ImageFrame, a GpuBuffer, or something else.
ImageFramePackets(ts) ==
  [type : {"ImageFrame"}, ts : {ts}, width : Widths, height : {1},
   format : {"SRGB"}]
GpuBufferPacket(ts, key) ==
  [type |-> "GpuBuffer", ts |-> ts, width |-> key.w, height |-> key.h,
   format |-> key.fmt]
OtherPacket(ts) ==
  [type |-> "other", ts |-> ts, width |-> 0, height |-> 0, format |-> "none"]
NoInput == [type |-> "none", ts |-> 0, width |-> 0, height |-> 0,
            format |-> "none"]
NoProcess == [input |-> NoInput, cmds |-> <<>>, out |-> <<>>]

\* The statements of the GL task of Process from the framebuffer bind on
\* (lines 167-206), in order; the CHECK of line 168 ends them when it fails.
ProcessCmds_SyncBeforeRender ==
  <<"glBindFramebuffer", "glCheckFramebufferStatus", "glViewport",
    "glBindTexture", "SetSync", "GlRender", "glBindFramebuffer 0",
    "BeginCpuAccessDMA", "Outputs.Add">>
ProcessCmds ==
  <<"glBindFramebuffer", "glCheckFramebufferStatus", "glViewport",
    "glBindTexture", "GlRender", "SetSync", "glBindFramebuffer 0",
    "BeginCpuAccessDMA", "Outputs.Add">>

\* Line 206: the ImageFrame made of (format, src.width(), src.height()) is
\* added to the output stream at cc->InputTimestamp().
OutputFrame(input) ==
  [type |-> "ImageFrame", ts |-> input.ts, width |-> input.width,
   height |-> input.height,
   format |-> ImageFormatForGpuBufferFormat(input.format)]

\* Process with a GpuBuffer input: the task run in the GL context.  status
\* is what glCheckFramebufferStatus reports for the bundle's framebuffer;
\* when the CHECK on it fails the process is terminated on the spot.
ProcessGpuBuffer(key, status, ts) ==
  /\ ~closed
  /\ Running
  /\ nFrames < MaxFrames
  /\ HaveFreeSync(eglSyncs)
  /\ fb_status' = status
  /\ IF ~FramebufferCheck(status)
     THEN /\ lastStatus' = "crashed"
          /\ procLast' = [input |-> GpuBufferPacket(ts, key),
                          cmds |-> SubSeq(ProcessCmds, 1, 2), out |-> <<>>]
          /\ UNCHANGED <<dma_texture_, nBundles, bundles, eglSyncs, nFrames,
                         frames, hist>>
     ELSE /\ LET reuse   == CanRecycle
                 texture == IF reuse THEN dma_texture_ ELSE nBundles + 1
                 b0      == IF reuse THEN bundles[texture]
                            ELSE NewDmaTexture(key)
                 fence   == SetEGLSync(eglSyncs, b0.sync)
                 f       == nFrames + 1
             IN  /\ dma_texture_' = IF reuse THEN SlotAfterTake
                                    ELSE dma_texture_
                 /\ nBundles' = IF reuse THEN nBundles ELSE nBundles + 1
                 /\ bundles' = [bundles EXCEPT
                                  ![texture] = BeginCpuAccessDMA(
                                         [b0 EXCEPT !.sync = fence.sync])]
                 /\ eglSyncs' = fence.tbl
                 /\ nFrames' = f
                 /\ frames' = [frames EXCEPT
                                 ![f] = [st |-> "held", bundle |-> texture,
                                         key |-> key, stride |-> b0.stride,
                                         sync |-> fence.sync,
                                         read |-> FALSE]]
          /\ hist' = [overlap |-> hist.overlap \/ Outstanding # {},
                      first   |-> IF nFrames = 0 THEN key ELSE hist.first,
                      mixed   |-> hist.mixed
                                    \/ (nFrames > 0 /\ key # hist.first)]
          /\ procLast' = [input |-> GpuBufferPacket(ts, key),
                          cmds |-> ProcessCmds,
                          out |-> <<OutputFrame(GpuBufferPacket(ts, key))>>]
          /\ lastStatus' = "ok"
  /\ UNCHANGED <<closed, waited, waitVars, adapterVars, resVars, glVars,
                 camVars, loopVars>>

\* Process with an ImageFrame input (lines 118-121): the packet is passed
\* through by AddPacket.
ProcessImageFrame(pkt) ==
  /\ ~closed
  /\ Running
  /\ lastStatus' = "ok"
  /\ procLast' = [input |-> pkt, cmds |-> <<>>, out |-> <<pkt>>]
  /\ UNCHANGED <<dma_texture_, bundles, nBundles, frames, nFrames, closed,
                 hist, fb_status, fenceVars, waitVars, adapterVars,
                 resVars,
                 glVars, camVars, loopVars>>

\* Process with any other input type (lines 214-215).
ProcessOther(ts) ==
  /\ ~closed
  /\ Running
  /\ lastStatus' = "InvalidArgument"
  /\ procLast' = [input |-> OtherPacket(ts), cmds |-> <<>>, out |-> <<>>]
  /\ UNCHANGED <<dma_texture_, bundles, nBundles, frames, nFrames, closed,
                 hist, fb_status, fenceVars, waitVars, adapterVars,
                 resVars,
                 glVars, camVars, loopVars>>

\* The consumer of an output ImageFrame reads its pixels (the mapped memory).
ConsumerRead(f) ==
  /\ Running
  /\ frames[f].st = "held"
  /\ ~frames[f].read
  /\ frames' = [frames EXCEPT ![f].read = TRUE]
  /\ UNCHANGED <<dma_texture_, bundles, nBundles, nFrames, closed, lastStatus,
                 hist, fb_status, procLast, fenceVars, waitVars, adapterVars,
                 resVars,
                 glVars, camVars, loopVars>>

\* The last reference to an output ImageFrame is dropped: its deleter runs
\* and schedules the release task on the GL context.
Deleter(f) ==
  /\ Running
  /\ frames[f].st = "held"
  /\ frames' = [frames EXCEPT ![f].st = "releasing"]
  /\ UNCHANGED <<dma_texture_, bundles, nBundles, nFrames, closed, lastStatus,
                 hist, fb_status, procLast, fenceVars, waitVars, adapterVars,
                 resVars,
                 glVars, camVars, loopVars>>

\* Deleter, line 183: recycle into the slot only when the slot is empty.
ReleaseRecycles_Never == FALSE
ReleaseRecycles_Always == TRUE
ReleaseRecycles == dma_texture_ = NoBundle

\* The release task of frame f, run in the GL context (lines 181-189).
ReleaseTask(f) ==
  /\ Running
  /\ frames[f].st = "releasing"
  /\ LET b  == frames[f].bundle
         b1 == [bundles EXCEPT ![b] = EndCpuAccessDMA(bundles[b])]
     IN  IF ReleaseRecycles
         THEN /\ dma_texture_' = b
              /\ bundles' = b1
              /\ eglSyncs' = eglSyncs
         ELSE /\ dma_texture_' = dma_texture_
              /\ bundles' = DeleteDmaTexture(b1, b)
              /\ eglSyncs' = DestroyEGLSync(eglSyncs, bundles[b].sync)
  /\ frames' = [frames EXCEPT ![f] = ReleasedFrame]
  /\ UNCHANGED <<nBundles, nFrames, closed, lastStatus, hist, fb_status,
                 procLast, waited, waitVars, adapterVars, resVars, glVars,
                 camVars, loopVars>>

\* Close runs off its end without a return statement: the Status the caller
\* sees is whatever the build leaves there (ok or not), or the process traps.
CloseOutcomes == {"ok", "undefined", "crashed"}

\* GpuBufferToImageFrameCalculator::Close: deletes the idle bundle.
Close ==
  /\ ~closed
  /\ Running
  /\ closed' = TRUE
  /\ \E out \in CloseOutcomes : lastStatus' = out
  /\ IF dma_texture_ # NoBundle
     THEN /\ bundles' = DeleteDmaTexture(bundles, dma_texture_)
          /\ eglSyncs' = DestroyEGLSync(eglSyncs, bundles[dma_texture_].sync)
          /\ dma_texture_' = NoBundle
     ELSE UNCHANGED <<bundles, eglSyncs, dma_texture_>>
  /\ UNCHANGED <<nBundles, frames, nFrames, hist, fb_status, procLast, waited,
                 waitVars, adapterVars, resVars, glVars, camVars, loopVars>>

CalcInit ==
  /\ dma_texture_ = NoBundle
  /\ bundles = [b \in BundleIds |-> UnallocBundle]
  /\ nBundles = 0
  /\ frames = [f \in FrameIds |-> NoFrame]
  /\ nFrames = 0
  /\ closed = FALSE
  /\ lastStatus = "none"
  /\ hist = [overlap |-> FALSE, first |-> NoKey, mixed |-> FALSE]
  /\ fb_status = "none"
  /\ procLast = NoProcess

FenceInit ==
  /\ eglSyncs = [s \in SyncIds |-> "free"]
  /\ waited = {}

WaitInit ==
  /\ sync = EGL_NO_SYNC
  /\ waitPc = "idle"
  /\ waitRes = "none"
  /\ waitAttempts = 0
  /\ waitObserved = "none"

\* GstVideoMeta fields the probe reads.
NoMeta == [flags |-> "none", format |-> "none", width |-> 0, height |-> 0]
NoBuffer == [n_planes |-> 0, glmem |-> FALSE, pts |-> 0, flags |-> "none",
             meta |-> NoMeta, tex |-> 0]
\* gst_buffer_new(): no flags, no timestamps, no meta, no memory.
NewBuffer == [pts |-> 0, flags |-> "none", meta |-> NoMeta, memory |-> <<>>]
NoPacket == [ts |-> 0, tex |-> 0]

\* No output packet allocated, no GL memory wrapped around its texture.
NoOutMem == [packet |-> "none", mem |-> "none", deletes |-> 0]

AdapterInit ==
  /\ adPc = "idle"
  /\ pipeline = "PLAYING"
  /\ graph = "running"
  /\ in_buf = NoBuffer
  /\ in_buf_ref = 0
  /\ info_data = "none"
  /\ frame_timestamp_ = 0
  /\ graphIn = <<>>
  /\ graphOut = <<>>
  /\ nBuffers = 0
  /\ nSubmits = 0
  /\ nPolls = 0
  /\ out_packet = NoPacket
  /\ out_buf = NewBuffer
  /\ outMem = [n \in 1..MaxBuffers |-> NoOutMem]

\* ===================== the fence API of GlCalculatorHelperImpl and a caller
\* eglClientWaitSync(display, sync, FLUSH_COMMANDS, 1s) on a fence in the
\* given state.
eglClientWaitSync(st) ==
  CASE st = "signaled" -> "EGL_CONDITION_SATISFIED"
    [] st = "pending"  -> "EGL_TIMEOUT_EXPIRED"
    [] OTHER           -> "EGL_FALSE"

\* What WaitEGLSync hands back to its caller after the platform result r:
\* the function is declared void.
WaitEGLSyncReturn(r) == "void"

\* The caller signals its fence: helper.SetEGLSync(&sync).
CallSetEGLSync ==
  /\ waitPc = "idle"
  /\ HaveFreeSync(eglSyncs)
  /\ LET fence == SetEGLSync(eglSyncs, sync)
     IN  /\ eglSyncs' = fence.tbl
         /\ sync' = fence.sync
  /\ UNCHANGED <<calcVars, waited, waitPc, waitRes, waitAttempts,
                 waitObserved, adapterVars, resVars, glVars, camVars,
                 loopVars>>

\* The caller destroys its fence: helper.DestroyEGLSync(&sync).
CallDestroyEGLSync ==
  /\ waitPc = "idle"
  /\ sync # EGL_NO_SYNC
  /\ eglSyncs' = DestroyEGLSync(eglSyncs, sync)
  /\ sync' = EGL_NO_SYNC
  /\ UNCHANGED <<calcVars, waited, waitPc, waitRes, waitAttempts,
                 waitObserved, adapterVars, resVars, glVars, camVars,
                 loopVars>>

\* WaitEGLSync is entered; with no fence it returns at once (line 382).
WaitEGLSyncEnter ==
  /\ waitPc = "idle"
  /\ waitRes' = "none"
  /\ waitAttempts' = 0
  /\ IF sync # EGL_NO_SYNC
     THEN /\ waitPc' = "waiting"
          /\ waitObserved' = "none"
     ELSE /\ waitPc' = "returned"
          /\ waitObserved' = WaitEGLSyncReturn("none")
  /\ UNCHANGED <<calcVars, fenceVars, sync, adapterVars, resVars, glVars, camVars,
                 loopVars>>

\* One pass of the do-while loop (lines 384-387): a platform wait, and the
\* loop is left on every result but EGL_TIMEOUT_EXPIRED.
WaitEGLSyncPoll ==
  /\ waitPc = "waiting"
  /\ LET res == eglClientWaitSync(eglSyncs[sync])
     IN  /\ waitRes' = res
         /\ waitAttempts' = (waitAttempts + 1) % (MaxAttempts + 1)
         /\ IF res = "EGL_TIMEOUT_EXPIRED"
            THEN UNCHANGED <<waitPc, waitObserved, waited>>
            ELSE /\ waitPc' = "returned"
                 /\ waitObserved' = WaitEGLSyncReturn(res)
                 /\ waited' = IF res = "EGL_CONDITION_SATISFIED"
                              THEN waited \cup {sync} ELSE waited
  /\ UNCHANGED <<calcVars, eglSyncs, sync, adapterVars, resVars, glVars, camVars,
                 loopVars>>

\* The caller carries on after WaitEGLSync returned.
WaitEGLSyncDone ==
  /\ waitPc = "returned"
  /\ waitPc' = "idle"
  /\ UNCHANGED <<calcVars, fenceVars, sync, waitRes, waitAttempts,
                 waitObserved, adapterVars, resVars, glVars, camVars,
                 loopVars>>

\* ============================== GstWrapper::HandlePadProbeBuffer (GPU demo)
\* Buffers the upstream pipeline can push: plane count of the video meta,
\* whether the memory is GL memory, presentation timestamp, buffer flags,
\* video meta and the texture id of the GL memory.
PlaneCounts == {1, 2}
BufferFlags == {"none", "DISCONT"}
VideoMetas == [flags : {"none"}, format : {"RGBA"}, width : Widths,
               height : Heights]
InTex == 1
Buffers(n) == [n_planes : PlaneCounts, glmem : BOOLEAN, pts : {n},
               flags : BufferFlags, meta : VideoMetas, tex : {InTex}]

\* Texture ids of the GpuBuffers the compute graph hands out.
GraphTexIds == {11, 12}

\* graph_.AddPacketToInputStream(kInputStream, packet.At(ts)) (line 240):
\* the graph's input queue afterwards.
SubmitPacket_Dropped(q, pkt) == q
SubmitPacket_Twice(q, pkt) == Append(Append(q, pkt), pkt)
SubmitPacket(q, pkt) == Append(q, pkt)

\* poller.Next(out_packet) (line 248): the poller's queue afterwards.
PollerNext_Peek(q) == q
PollerNext(q) == Tail(q)

\* gst_buffer_copy_into(dst, src, COPY_FLAGS | COPY_TIMESTAMPS, 0, 0)
\* (lines 300-303): flags and timestamps are copied, memory and meta are not.
gst_buffer_copy_into_FlagsOnly(dst, src) == [dst EXCEPT !.flags = src.flags]
gst_buffer_copy_into(dst, src) ==
  [dst EXCEPT !.flags = src.flags, !.pts = src.pts]

\* gst_buffer_add_video_meta(buf, flags, format, width, height) (line 304).
gst_buffer_add_video_meta(buf, flags, format, width, height) ==
  [buf EXCEPT !.meta = [flags |-> flags, format |-> format,
                        width |-> width, height |-> height]]

\* gst_buffer_append_memory(buf, gl_memory) (line 305), the GL memory being
\* the wrapper of texture tex made in lines 274-294.
gst_buffer_append_memory(buf, tex) ==
  [buf EXCEPT !.memory = Append(buf.memory, tex)]

\* The streaming thread enters the probe with a buffer (lines 224-225).
PadProbe(buf) ==
  /\ pipeline = "PLAYING"
  /\ adPc \in {"idle", "RELEASED"}
  /\ nBuffers < MaxBuffers
  /\ nBuffers' = nBuffers + 1
  /\ in_buf' = buf
  /\ in_buf_ref' = 1
  /\ info_data' = "in_buf"
  /\ adPc' = "CAPTURED"
  /\ nSubmits' = 0
  /\ nPolls' = 0
  /\ out_packet' = NoPacket
  /\ out_buf' = NewBuffer
  /\ UNCHANGED <<calcVars, fenceVars, waitVars, pipeline, graph,
                 frame_timestamp_, graphIn, graphOut, outMem,
                 resVars, glVars, camVars, loopVars>>

\* Lines 228-241: the checks on the buffer, then the texture is wrapped in a
\* GpuBuffer packet and submitted at timestamp frame_timestamp_++.  The
\* status of AddPacketToInputStream is not looked at.
Import ==
  /\ adPc = "CAPTURED"
  /\ IF in_buf.n_planes # 1 \/ ~in_buf.glmem
     THEN /\ adPc' = "ABORTED"
          /\ UNCHANGED <<frame_timestamp_, graphIn, nSubmits>>
     ELSE /\ adPc' = "IMPORTED"
          /\ frame_timestamp_' = frame_timestamp_ + 1
          /\ nSubmits' = nSubmits + 1
          /\ graphIn' = IF graph = "running"
                        THEN SubmitPacket(graphIn, [ts  |-> frame_timestamp_,
                                                    tex |-> in_buf.tex])
                        ELSE graphIn
  /\ UNCHANGED <<calcVars, fenceVars, waitVars, pipeline, graph, in_buf,
                 in_buf_ref, info_data, graphOut, nBuffers, nPolls,
                 out_packet, out_buf, outMem,
                 resVars, glVars, camVars, loopVars>>

\* The compute graph turns its oldest input into an output packet that holds
\* a texture of the graph's own.
GraphProcess ==
  /\ adPc # "ABORTED"
  /\ graph = "running"
  /\ graphIn # <<>>
  /\ \E t \in GraphTexIds :
       graphOut' = Append(graphOut, [ts |-> Head(graphIn).ts, tex |-> t])
  /\ graphIn' = Tail(graphIn)
  /\ UNCHANGED <<calcVars, fenceVars, waitVars, adPc, pipeline, graph, in_buf,
                 in_buf_ref, info_data, frame_timestamp_, nBuffers, nSubmits,
                 nPolls, out_packet, out_buf, outMem,
                 resVars, glVars, camVars, loopVars>>

\* The compute graph ends its run (an error in a node).
GraphDone ==
  /\ adPc # "ABORTED"
  /\ graph = "running"
  /\ graph' = "done"
  /\ UNCHANGED <<calcVars, fenceVars, waitVars, adPc, pipeline, in_buf,
                 in_buf_ref, info_data, frame_timestamp_, graphIn, graphOut,
                 nBuffers, nSubmits, nPolls, out_packet, out_buf, outMem,
                 resVars, glVars, camVars, loopVars>>

\* out_packet = new mediapipe::Packet() (line 247), then
\* CHECK(poller.Next(out_packet)) (line 248): blocks until the graph has an
\* output packet; fatal when the graph is done and has none.
Poll ==
  /\ adPc = "IMPORTED"
  /\ outMem' = [outMem EXCEPT ![nBuffers].packet = "alive"]
  /\ \/ /\ graphOut # <<>>
        /\ out_packet' = Head(graphOut)
        /\ graphOut' = PollerNext(graphOut)
        /\ nPolls' = nPolls + 1
        /\ adPc' = "RESULT_READY"
     \/ /\ graphOut = <<>>
        /\ graph = "done"
        /\ UNCHANGED <<graphOut, out_packet, nPolls>>
        /\ adPc' = "ABORTED"
  /\ UNCHANGED <<calcVars, fenceVars, waitVars, pipeline, graph, in_buf,
                 in_buf_ref, info_data, frame_timestamp_, graphIn, nBuffers,
                 nSubmits, out_buf, resVars, glVars, camVars, loopVars>>

\* Lines 250-305: out_tex_id is the texture of the output packet; it is
\* wrapped in GL memory, and a new GstBuffer takes the flags and timestamps
\* of in_buf, a video meta built from in_buf's, and that memory.
Rewrap ==
  /\ adPc = "RESULT_READY"
  /\ LET out_tex_id == out_packet.tex
         meta       == in_buf.meta
         b1 == gst_buffer_copy_into(NewBuffer, in_buf)
         b2 == gst_buffer_add_video_meta(b1, meta.flags, meta.format,
                                         meta.width, meta.height)
     IN  out_buf' = gst_buffer_append_memory(b2, out_tex_id)
  /\ outMem' = [outMem EXCEPT ![nBuffers].mem = "alive"]
  /\ adPc' = "REWRAPPED"
  /\ UNCHANGED <<calcVars, fenceVars, waitVars, pipeline, graph, in_buf,
                 in_buf_ref, info_data, frame_timestamp_, graphIn, graphOut,
                 nBuffers, nSubmits, nPolls, out_packet, resVars,
                 glVars, camVars, loopVars>>

\* Line 310: info->data = out_buf.
InstallReplacement_Skipped(data) == data
InstallReplacement(data) == "out_buf"

\* Lines 308-311: info->data = out_buf; gst_buffer_unref(in_buf).
Release ==
  /\ adPc = "REWRAPPED"
  /\ info_data' = InstallReplacement(info_data)
  /\ in_buf_ref' = in_buf_ref - 1
  /\ adPc' = "RELEASED"
  /\ UNCHANGED <<calcVars, fenceVars, waitVars, pipeline, graph, in_buf,
                 frame_timestamp_, graphIn, graphOut, nBuffers, nSubmits,
                 nPolls, out_packet, out_buf, outMem,
                 resVars, glVars, camVars, loopVars>>

\* GstWrapper::OnPacketDestroy (lines 205-207), the destroy notification
\* of the wrapped GL memory: delete packet.
OnPacketDestroy_Twice(m) ==
  [m EXCEPT !.packet = "deleted", !.deletes = m.deletes + 2]
OnPacketDestroy(m) ==
  [m EXCEPT !.packet = "deleted", !.deletes = m.deletes + 1]

\* Downstream drops the last reference to replacement buffer n after the
\* probe has returned it: its GL memory is destroyed and the notification
\* given in line 283 runs.
DownstreamUnref(n) ==
  /\ adPc # "ABORTED"
  /\ n < nBuffers \/ (n = nBuffers /\ adPc = "RELEASED")
  /\ outMem[n].mem = "alive"
  /\ outMem' = [outMem EXCEPT
                  ![n] = OnPacketDestroy([outMem[n] EXCEPT
                                           !.mem = "destroyed"])]
  /\ UNCHANGED <<calcVars, fenceVars, waitVars, adPc, pipeline, graph, in_buf,
                 in_buf_ref, info_data, frame_timestamp_, graphIn, graphOut,
                 nBuffers, nSubmits, nPolls, out_packet, out_buf, resVars,
                 glVars, camVars, loopVars>>

\* GstWrapper::Stop: the pipeline is set to GST_STATE_NULL.
Stop ==
  /\ adPc # "ABORTED"
  /\ pipeline = "PLAYING"
  /\ pipeline' = "NULL"
  /\ UNCHANGED <<calcVars, fenceVars, waitVars, adPc, graph, in_buf,
                 in_buf_ref, info_data, frame_timestamp_, graphIn, graphOut,
                 nBuffers, nSubmits, nPolls, out_packet, out_buf, outMem,
                 resVars, glVars, camVars, loopVars>>

\* ============== the DMA API of GlCalculatorHelperImpl and one DmaTexture
\* GpuBufferFormat values a caller can pass: the two CreateEGLImageDMA has a
\* case for, and two it has none for.
AllFormats == Formats \cup {"kGrayFloat32", "kOneComponent8"}
\* Descriptor numbers the kernel can hand out, image handles and mapping
\* addresses the platform can hand out.
Fds == 0..MaxFd
ImageIds == 1..MaxDma
Addrs == 1..MaxDma

\* struct DmaTexture as constructed (member initialisers, lines 32-37); its
\* sync member is the variable sync.
DmaTexture == [image |-> EGL_NO_IMAGE, dma_fd |-> 0, stride |-> 0,
               data |-> nullptr, map_size |-> 0]

NoCall == [width |-> 0, height |-> 0, format |-> "none", supported |-> FALSE,
           bo |-> FALSE, fd |-> -1, created |-> FALSE, addr |-> MAP_FAILED]

\* The switch of CreateEGLImageDMA (lines 268-278).
GbmFormat_Default(format) ==
  CASE format = "kRGB24" -> "GBM_FORMAT_BGR888"
    [] OTHER             -> "GBM_FORMAT_ABGR8888"
GbmFormat(format) ==
  CASE format = "kBGRA32" -> "GBM_FORMAT_ABGR8888"
    [] format = "kRGB24"  -> "GBM_FORMAT_BGR888"
    [] OTHER              -> "CHECK(false)"

\* eglCreateImage hands out an image handle not handed out before.
NewImage(p) == CHOOSE i \in ImageIds :
                 p.images[i] = "free"
                   /\ \A j \in ImageIds : p.images[j] = "free" => i <= j

\* GlCalculatorHelperImpl::CreateEGLImageDMA on platform state p, writing
\* the out-parameters into t.  supported: gbm_device_is_format_supported;
\* bo: gbm_bo_create gave an object; fd: result of gbm_bo_get_fd; created:
\* eglCreateImage gave an image.  ok = FALSE is a fatal CHECK.
CreateEGLImageDMA(p, t, width, height, format, supported, bo, fd, created) ==
  IF GbmFormat(format) = "CHECK(false)" \/ ~supported
  THEN [ok |-> FALSE, plat |-> p, tex |-> t]
  ELSE IF ~bo
  THEN [ok |-> FALSE, plat |-> p, tex |-> t]
  ELSE LET p1 == [p EXCEPT !.nBo = @ + 1]
       IN  IF fd < 0
           THEN [ok |-> FALSE, plat |-> p1, tex |-> t]
           ELSE LET p2 == [p1 EXCEPT !.fds[fd] = "open"]
                    i  == NewImage(p2)
                IN  IF ~created
                    THEN [ok |-> FALSE, plat |-> p2, tex |-> t]
                    ELSE [ok   |-> TRUE,
                          plat |-> [p2 EXCEPT !.images[i] = "live"],
                          tex  |-> [t EXCEPT !.image = i, !.dma_fd = fd,
                                             !.stride = Stride(width, format)]]

\* GlCalculatorHelperImpl::DestroyEGLImageDMA(&t.image, &t.dma_fd).
DestroyEGLImageDMA(p, t) ==
  LET p1 == IF t.image # EGL_NO_IMAGE
            THEN [p EXCEPT !.images[t.image] = "destroyed",
                           !.nImgDestroy = @ + 1]
            ELSE p
      t1 == IF t.image # EGL_NO_IMAGE
            THEN [t EXCEPT !.image = EGL_NO_IMAGE] ELSE t
  IN  IF t.dma_fd > 0
      THEN [plat |-> [p1 EXCEPT !.fds[t.dma_fd] = "closed", !.nClose = @ + 1],
            tex  |-> [t1 EXCEPT !.dma_fd = -1]]
      ELSE [plat |-> p1, tex |-> t1]

\* GlCalculatorHelperImpl::MapDMA(t.dma_fd, t.map_size, &t.data); addr is
\* the result of mmap.
MapDMA(p, t, addr) ==
  IF addr = MAP_FAILED
  THEN [ok |-> FALSE, plat |-> p, tex |-> [t EXCEPT !.data = MAP_FAILED]]
  ELSE [ok   |-> TRUE,
        plat |-> [p EXCEPT !.maps[addr] = "mapped"],
        tex  |-> [t EXCEPT !.data = addr]]

\* GlCalculatorHelperImpl::UnmapDMA(&t.data, t.map_size); res is the result
\* of munmap.
UnmapDMA_KeepPointer(p, t, res) ==
  IF t.data # nullptr
  THEN IF res # 0
       THEN [ok |-> FALSE, plat |-> p, tex |-> t]
       ELSE [ok   |-> TRUE,
             plat |-> [p EXCEPT !.maps[t.data] = "unmapped",
                                !.nMunmap = @ + 1],
             tex  |-> t]
  ELSE [ok |-> TRUE, plat |-> p, tex |-> t]
UnmapDMA(p, t, res) ==
  IF t.data # nullptr
  THEN IF res # 0
       THEN [ok |-> FALSE, plat |-> p, tex |-> t]
       ELSE [ok   |-> TRUE,
             plat |-> [p EXCEPT !.maps[t.data] = "unmapped",
                                !.nMunmap = @ + 1],
             tex  |-> [t EXCEPT !.data = nullptr]]
  ELSE [ok |-> TRUE, plat |-> p, tex |-> t]

\* Statements of DmaTexture::~DmaTexture in order (lines 47-51).
DtorOrder_CloseFirst ==
  <<"glDeleteTextures", "glDeleteFramebuffers", "DestroyEGLImageDMA",
    "DestroyEGLSync", "UnmapDMA">>
DtorOrder ==
  <<"glDeleteTextures", "glDeleteFramebuffers", "DestroyEGLSync",
    "UnmapDMA", "DestroyEGLImageDMA">>

DmaInit ==
  /\ dma = DmaTexture
  /\ plat = [fds |-> [f \in Fds |-> "free"],
             images |-> [i \in ImageIds |-> "free"],
             maps |-> [a \in Addrs |-> "free"],
             nBo |-> 0, nClose |-> 0, nImgDestroy |-> 0, nMunmap |-> 0]
  /\ dmaPc = "none"
  /\ dtorAt = 0
  /\ lastCall = NoCall

\* Process lines 148-164: a DmaTexture is constructed, its image and
\* descriptor are created and the descriptor is mapped.
DmaAcquire(key, format, supported, bo, fd, created, addr) ==
  /\ dmaPc \in {"none", "dead"}
  /\ plat.nBo < MaxDma
  /\ fd >= 0 => plat.fds[fd] = "free"
  /\ addr # MAP_FAILED => plat.maps[addr] = "free"
  /\ LET c  == CreateEGLImageDMA(plat, DmaTexture, key.w, key.h, format,
                                 supported, bo, fd, created)
         t1 == [c.tex EXCEPT !.map_size = key.h * c.tex.stride]
         m  == MapDMA(c.plat, t1, addr)
     IN  IF ~c.ok
         THEN /\ dmaPc' = "fatal"
              /\ plat' = c.plat
              /\ dma' = c.tex
         ELSE /\ dmaPc' = IF m.ok THEN "ready" ELSE "fatal"
              /\ plat' = m.plat
              /\ dma' = m.tex
  /\ dtorAt' = 0
  /\ lastCall' = [width |-> key.w, height |-> key.h, format |-> format,
                  supported |-> supported, bo |-> bo, fd |-> fd,
                  created |-> created, addr |-> addr]
  /\ UNCHANGED <<calcVars, fenceVars, waitVars, adapterVars, glVars, camVars,
                 loopVars>>

\* DmaTexture::SetSync (lines 42-44) on the live bundle.
DmaSetSync ==
  /\ dmaPc = "ready"
  /\ HaveFreeSync(eglSyncs)
  /\ LET fence == SetEGLSync(eglSyncs, sync)
     IN  /\ eglSyncs' = fence.tbl
         /\ sync' = fence.sync
  /\ UNCHANGED <<calcVars, waited, waitPc, waitRes, waitAttempts,
                 waitObserved, adapterVars, resVars, glVars, camVars,
                 loopVars>>

\* One statement of DmaTexture::~DmaTexture.
DmaDtor ==
  /\ dmaPc \in {"ready", "dtor"}
  /\ LET step == DtorOrder[dtorAt + 1]
         last == dtorAt + 1 = Len(DtorOrder)
     IN  /\ dtorAt' = dtorAt + 1
         /\ CASE step = "DestroyEGLSync" ->
                   /\ eglSyncs' = DestroyEGLSync(eglSyncs, sync)
                   /\ sync' = EGL_NO_SYNC
                   /\ dmaPc' = IF last THEN "dead" ELSE "dtor"
                   /\ UNCHANGED <<dma, plat>>
              [] step = "UnmapDMA" ->
                   \E res \in {0, -1} :
                     LET u == UnmapDMA(plat, dma, res)
                     IN  /\ dma' = u.tex
                         /\ plat' = u.plat
                         /\ dmaPc' = IF ~u.ok THEN "fatal"
                                     ELSE IF last THEN "dead" ELSE "dtor"
                         /\ UNCHANGED <<eglSyncs, sync>>
              [] step = "DestroyEGLImageDMA" ->
                   LET d == DestroyEGLImageDMA(plat, dma)
                   IN  /\ dma' = d.tex
                       /\ plat' = d.plat
                       /\ dmaPc' = IF last THEN "dead" ELSE "dtor"
                       /\ UNCHANGED <<eglSyncs, sync>>
              [] OTHER ->
                   /\ dmaPc' = IF last THEN "dead" ELSE "dtor"
                   /\ UNCHANGED <<dma, plat, eglSyncs, sync>>
  /\ UNCHANGED <<calcVars, waited, waitPc, waitRes, waitAttempts,
                 waitObserved, adapterVars, lastCall, glVars, camVars,
                 loopVars>>

\* ======================= the texture / framebuffer API of the GL helper
\* GpuBufferFormat values of the buffers the helper maps, and the internal
\* format GlTextureInfoForGpuBufferFormat gives for plane 0 of each.
GlFormats == {"kBGRA32", "kGrayFloat32", "kRGBAFloat128", "kGrayHalf16"}
GlTextureInfoForGpuBufferFormat(format) ==
  CASE format = "kGrayFloat32"  -> "GL_R32F"
    [] format = "kRGBAFloat128" -> "GL_RGBA32F"
    [] format = "kGrayHalf16"   -> "GL_R16F"
    [] OTHER                    -> "GL_RGBA"

TexIds == 1..MaxTextures
Planes == {0, 1}
\* Sizes of the output buffer handed to ReadTexture, in bytes.
ReadSizes == {0, 7, 8, 15, 16, 17}

NoTexture == [st |-> "free", width |-> 0, height |-> 0, format |-> "none",
              params |-> "none"]
\* A default-constructed GlTexture.
NoGlTexture == [name |-> 0, width |-> 0, height |-> 0,
                target |-> "GL_TEXTURE_2D", plane |-> 0,
                for_reading |-> FALSE]
NoAttachment == [name |-> 0, target |-> "GL_NONE"]
NoViewport == [x |-> 0, y |-> 0, w |-> 0, h |-> 0]
NoGlCall == [op |-> "none", cmds |-> <<>>, logged |-> FALSE, arg |-> 0]

\* GlCalculatorHelperImpl::SetStandardTextureParams: the parameters the
\* texture has afterwards.
SetStandardTextureParams_AlwaysLinear(internal_format) ==
  [min |-> "GL_LINEAR", mag |-> "GL_LINEAR",
   wrap_s |-> "GL_CLAMP_TO_EDGE", wrap_t |-> "GL_CLAMP_TO_EDGE"]
SetStandardTextureParams(internal_format) ==
  LET filter == IF internal_format \in {"GL_R32F", "GL_RGBA32F"}
                THEN "GL_NEAREST" ELSE "GL_LINEAR"
  IN  [min |-> filter, mag |-> filter,
       wrap_s |-> "GL_CLAMP_TO_EDGE", wrap_t |-> "GL_CLAMP_TO_EDGE"]

\* The commands MapGlTextureBuffer puts into the context's command stream,
\* in order (lines 178-193).
MapGlTextureBufferCmds_BindFirst ==
  <<"glBindTexture", "WaitOnGpu", "glTexParameteri", "glBindTexture 0">>
MapGlTextureBufferCmds ==
  <<"WaitOnGpu", "glBindTexture", "glTexParameteri", "glBindTexture 0">>

\* The commands MakeGlTextureBuffer puts into the command stream for the
\* texture it has made of an ImageFrame (lines 205-209).
MakeGlTextureBufferCmds ==
  <<"glBindTexture", "glTexParameteri", "glBindTexture 0">>

\* MapGpuBuffer, line 171: the only plane that is mapped.
PlaneAccepted_Any(plane) == TRUE
PlaneAccepted(plane) == plane = 0

\* BindFramebuffer line 109 / CreateDestinationTexture line 217: a
\* framebuffer is generated only when the helper has none.
NeedFramebuffer_Always(fb) == TRUE
NeedFramebuffer(fb) == fb = 0

\* glFramebufferTexture2D(GL_FRAMEBUFFER, GL_COLOR_ATTACHMENT0, target,
\* name, 0): the color attachment afterwards; name 0 detaches.
glFramebufferTexture2D_Ignored(target, name) == NoAttachment
glFramebufferTexture2D(target, name) ==
  IF name = 0 THEN NoAttachment ELSE [name |-> name, target |-> target]

\* MapGlTextureBuffer on the texture with the given name: the GlTexture.
MapGlTextureBuffer(name, width, height) ==
  [name |-> name, width |-> width, height |-> height,
   target |-> "GL_TEXTURE_2D", plane |-> 0, for_reading |-> FALSE]

\* The GlTexture of a texture that exists.
GlTextureOf(t) == MapGlTextureBuffer(t, textures[t].width, textures[t].height)

\* ReadTexture line 230: the output buffer is large enough.
SizeOk_Always(size, texture) == TRUE
SizeOk(size, texture) == size >= texture.width * texture.height * 4

\* One GL command of ReadTexture: its name, and the viewport or the color
\* attachment it sets.
GlCmd(op, vp, at) == [op |-> op, vp |-> vp, at |-> at]

\* The commands of ReadTexture after its two checks (lines 240-260): vp and
\* name are the viewport and the color attachment name read at entry.
ReadTextureCmds_NoRestore(texture, vp, name) ==
  IF name # texture.name
  THEN <<GlCmd("glViewport", [x |-> 0, y |-> 0, w |-> texture.width,
                              h |-> texture.height], NoAttachment),
         GlCmd("glFramebufferTexture2D", NoViewport,
               glFramebufferTexture2D(texture.target, texture.name)),
         GlCmd("glReadPixels", NoViewport, NoAttachment)>>
  ELSE <<GlCmd("glReadPixels", NoViewport, NoAttachment)>>
ReadTextureCmds(texture, vp, name) ==
  IF name # texture.name
  THEN <<GlCmd("glViewport", [x |-> 0, y |-> 0, w |-> texture.width,
                              h |-> texture.height], NoAttachment),
         GlCmd("glFramebufferTexture2D", NoViewport,
               glFramebufferTexture2D(texture.target, texture.name)),
         GlCmd("glReadPixels", NoViewport, NoAttachment),
         GlCmd("glViewport", vp, NoAttachment),
         GlCmd("glFramebufferTexture2D", NoViewport,
               glFramebufferTexture2D("GL_TEXTURE_2D", name))>>
  ELSE <<GlCmd("glReadPixels", NoViewport, NoAttachment)>>

\* The viewport and color attachment after the commands have run.
RECURSIVE GlExec(_, _)
GlExec(st, cmds) ==
  IF cmds = <<>> THEN st
  ELSE LET c == Head(cmds)
       IN  GlExec(CASE c.op = "glViewport" -> [st EXCEPT !.vp = c.vp]
                    [] c.op = "glFramebufferTexture2D"
                         -> [st EXCEPT !.at = c.at]
                    [] OTHER -> st,
                  Tail(cmds))

\* The names of the commands.
CmdNames(cmds) == [i \in 1..Len(cmds) |-> cmds[i].op]

GlInit ==
  /\ framebuffer_ = 0
  /\ nGenFramebuffers = 0
  /\ glBound = 0
  /\ glAttach = NoAttachment
  /\ glViewport = NoViewport
  /\ textures = [t \in TexIds |-> NoTexture]
  /\ nTextures = 0
  /\ lastTexture = NoGlTexture
  /\ glLast = NoGlCall
  /\ glPc = "ok"

\* CreateDestinationTexture(width, height, format): the framebuffer is made
\* if there is none, a buffer is taken from the pool and mapped.
GlCreateDestinationTexture(key, format) ==
  /\ glPc = "ok"
  /\ nTextures < MaxTextures
  /\ LET gen  == NeedFramebuffer(framebuffer_)
         name == nTextures + 1
     IN  /\ framebuffer_' = IF gen THEN nGenFramebuffers + 1 ELSE framebuffer_
         /\ nGenFramebuffers' = IF gen THEN nGenFramebuffers + 1
                                ELSE nGenFramebuffers
         /\ nTextures' = name
         /\ textures' = [textures EXCEPT ![name] =
              [st |-> "live", width |-> key.w, height |-> key.h,
               format |-> format,
               params |-> SetStandardTextureParams(
                            GlTextureInfoForGpuBufferFormat(format))]]
         /\ lastTexture' = MapGlTextureBuffer(name, key.w, key.h)
  /\ glLast' = [op |-> "CreateDestinationTexture",
                cmds |-> MapGlTextureBufferCmds, logged |-> FALSE,
                arg |-> 0]
  /\ UNCHANGED <<glBound, glAttach, glViewport, glPc>>
  /\ UNCHANGED <<calcVars, fenceVars, waitVars, adapterVars, resVars,
                 camVars, loopVars>>

\* CreateSourceTexture(gpu_buffer, plane) on a GpuBuffer of the given size
\* and format; fatal for every plane but 0 before anything is mapped.
GlCreateSourceTexture(key, format, plane) ==
  /\ glPc = "ok"
  /\ nTextures < MaxTextures
  /\ IF ~PlaneAccepted(plane)
     THEN /\ glPc' = "fatal"
          /\ glLast' = [op |-> "CreateSourceTexture", cmds |-> <<>>,
                        logged |-> FALSE,
                        arg |-> plane]
          /\ UNCHANGED <<textures, nTextures, lastTexture>>
     ELSE LET name == nTextures + 1
          IN  /\ nTextures' = name
              /\ textures' = [textures EXCEPT ![name] =
                   [st |-> "live", width |-> key.w, height |-> key.h,
                    format |-> format,
                    params |-> SetStandardTextureParams(
                                 GlTextureInfoForGpuBufferFormat(format))]]
              /\ lastTexture' = [MapGlTextureBuffer(name, key.w, key.h)
                                   EXCEPT !.for_reading = TRUE]
              /\ glLast' = [op |-> "CreateSourceTexture",
                            cmds |-> MapGlTextureBufferCmds,
                            logged |-> FALSE,
                            arg |-> plane]
              /\ glPc' = glPc
  /\ UNCHANGED <<framebuffer_, nGenFramebuffers, glBound, glAttach,
                 glViewport>>
  /\ UNCHANGED <<calcVars, fenceVars, waitVars, adapterVars, resVars,
                 camVars, loopVars>>

\* CreateSourceTexture(image_frame) (lines 148-153): the texture made by
\* MakeGlTextureBuffer is mapped by MapGlTextureBuffer; no plane is checked.
GlCreateSourceTextureImageFrame(key, format) ==
  /\ glPc = "ok"
  /\ nTextures < MaxTextures
  /\ LET name == nTextures + 1
     IN  /\ nTextures' = name
         /\ textures' = [textures EXCEPT ![name] =
              [st |-> "live", width |-> key.w, height |-> key.h,
               format |-> format,
               params |-> SetStandardTextureParams(
                            GlTextureInfoForGpuBufferFormat(format))]]
         /\ lastTexture' = [MapGlTextureBuffer(name, key.w, key.h)
                              EXCEPT !.for_reading = TRUE]
         /\ glLast' = [op |-> "CreateSourceTexture(ImageFrame)",
                       cmds |-> MakeGlTextureBufferCmds
                                  \o MapGlTextureBufferCmds,
                       logged |-> FALSE,
                       arg |-> 0]
  /\ UNCHANGED <<framebuffer_, nGenFramebuffers, glBound, glAttach,
                 glViewport, glPc>>
  /\ UNCHANGED <<calcVars, fenceVars, waitVars, adapterVars, resVars,
                 camVars, loopVars>>

\* BindFramebuffer(dst) in a build without __ANDROID__; status is what
\* glCheckFramebufferStatus reports, looked at only when NDEBUG is not set.
GlBindFramebuffer(t, status, debug) ==
  /\ glPc = "ok"
  /\ textures[t].st = "live"
  /\ LET gen == NeedFramebuffer(framebuffer_)
         dst == GlTextureOf(t)
     IN  /\ framebuffer_' = IF gen THEN nGenFramebuffers + 1 ELSE framebuffer_
         /\ nGenFramebuffers' = IF gen THEN nGenFramebuffers + 1
                                ELSE nGenFramebuffers
         /\ glBound' = framebuffer_'
         /\ glViewport' = [x |-> 0, y |-> 0, w |-> dst.width,
                           h |-> dst.height]
         /\ glAttach' = glFramebufferTexture2D(dst.target, dst.name)
         /\ lastTexture' = dst
  /\ glLast' = [op |-> "BindFramebuffer",
                cmds |-> <<"glBindFramebuffer", "glViewport",
                           "glActiveTexture", "glBindTexture",
                           "glFramebufferTexture2D">>,
                logged |-> debug /\ status # "GL_FRAMEBUFFER_COMPLETE",
                arg |-> 0]
  /\ UNCHANGED <<textures, nTextures, glPc>>
  /\ UNCHANGED <<calcVars, fenceVars, waitVars, adapterVars, resVars,
                 camVars, loopVars>>

\* glBindFramebuffer(GL_FRAMEBUFFER, 0) by a user of the context
\* (GpuBufferToImageFrameCalculator::Process line 178).
GlUnbindFramebuffer ==
  /\ glPc = "ok"
  /\ glBound # 0
  /\ glBound' = 0
  /\ glLast' = [op |-> "glBindFramebuffer 0",
                cmds |-> <<"glBindFramebuffer">>, logged |-> FALSE,
                arg |-> 0]
  /\ UNCHANGED <<framebuffer_, nGenFramebuffers, glAttach, glViewport,
                 textures, nTextures, lastTexture, glPc>>
  /\ UNCHANGED <<calcVars, fenceVars, waitVars, adapterVars, resVars,
                 camVars, loopVars>>

\* ReadTexture(texture, output, size).
GlReadTexture(t, size) ==
  /\ glPc = "ok"
  /\ textures[t].st = "live"
  /\ LET texture == GlTextureOf(t)
         cmds    == ReadTextureCmds(texture, glViewport, glAttach.name)
         after   == GlExec([vp |-> glViewport, at |-> glAttach], cmds)
     IN  /\ lastTexture' = texture
         /\ IF ~SizeOk(size, texture) \/ glBound = 0
            THEN /\ glPc' = "fatal"
                 /\ glLast' = [op |-> "ReadTexture", cmds |-> <<>>,
                               logged |-> FALSE,
                               arg |-> size]
                 /\ UNCHANGED <<glAttach, glViewport>>
            ELSE /\ glPc' = glPc
                 /\ glLast' = [op |-> "ReadTexture", cmds |-> CmdNames(cmds),
                               logged |-> FALSE,
                               arg |-> size]
                 /\ glViewport' = after.vp
                 /\ glAttach' = after.at
  /\ UNCHANGED <<framebuffer_, nGenFramebuffers, glBound, textures,
                 nTextures>>
  /\ UNCHANGED <<calcVars, fenceVars, waitVars, adapterVars, resVars,
                 camVars, loopVars>>

\* ================================== SimpleGstCamera (the camera mailbox)
SampleIds == 1..MaxSamples
\* The two programs that have a SimpleGstCamera.
CamVariants == {"demo_gst", "demo_run_graph_main"}

\* gst_buffer_replace(&buffer_, new_buffer): what the slot holds afterwards.
gst_buffer_replace_KeepOld(old, new) == IF old # nullptr THEN old ELSE new
gst_buffer_replace(old, new) == new

\* Reference counts after gst_buffer_replace(&old, new): one more on new,
\* one less on old.
ReplaceRefs(r, old, new) ==
  LET r1 == IF new # nullptr THEN [r EXCEPT ![new] = @ + 1] ELSE r
  IN  IF old # nullptr THEN [r1 EXCEPT ![old] = @ - 1] ELSE r1

CamInit ==
  /\ camVariant = "none"
  /\ buffer_ = nullptr
  /\ mutex_ = "free"
  /\ cbPc = "idle"
  /\ new_buffer = nullptr
  /\ appPc = "idle"
  /\ buffer = nullptr
  /\ refs = [b \in SampleIds |-> 0]
  /\ nSamples = 0
  /\ lastStored = nullptr
  /\ framesHeld = {}
  /\ returned = [b \in SampleIds |-> 0]
  /\ frame = nullptr

\* SimpleGstCamera::Start in one of the two programs: the pipeline plays.
CamStart(variant) ==
  /\ camVariant = "none"
  /\ camVariant' = variant
  /\ UNCHANGED <<buffer_, mutex_, cbPc, new_buffer, appPc, buffer, refs,
                 nSamples, lastStored, framesHeld,
                 returned, frame>>
  /\ UNCHANGED <<calcVars, fenceVars, waitVars, adapterVars, resVars,
                 glVars, loopVars>>

\* HandleNewSample: gst_app_sink_pull_sample / gst_sample_get_buffer.  The
\* sample holds one reference on its buffer.
CbPull ==
  /\ camVariant # "none"
  /\ cbPc = "idle"
  /\ nSamples < MaxSamples
  /\ nSamples' = nSamples + 1
  /\ new_buffer' = nSamples + 1
  /\ refs' = [refs EXCEPT ![nSamples + 1] = 1]
  /\ cbPc' = "pulled"
  /\ UNCHANGED <<camVariant, buffer_, mutex_, appPc, buffer, lastStored,
                 framesHeld,
                 returned, frame>>
  /\ UNCHANGED <<calcVars, fenceVars, waitVars, adapterVars, resVars,
                 glVars, loopVars>>

\* HandleNewSample: absl::MutexLock lock(&mutex_).
CbLock ==
  /\ cbPc = "pulled"
  /\ mutex_ = "free"
  /\ mutex_' = "callback"
  /\ cbPc' = "locked"
  /\ UNCHANGED <<camVariant, buffer_, new_buffer, appPc, buffer, refs,
                 nSamples, lastStored, framesHeld,
                 returned, frame>>
  /\ UNCHANGED <<calcVars, fenceVars, waitVars, adapterVars, resVars,
                 glVars, loopVars>>

\* HandleNewSample: gst_buffer_replace(&buffer_, new_buffer), end of the
\* locked scope.
CbReplace ==
  /\ cbPc = "locked"
  /\ buffer_' = gst_buffer_replace(buffer_, new_buffer)
  /\ refs' = ReplaceRefs(refs, buffer_, new_buffer)
  /\ lastStored' = new_buffer
  /\ mutex_' = "free"
  /\ cbPc' = "replaced"
  /\ UNCHANGED <<camVariant, new_buffer, appPc, buffer, nSamples,
                 framesHeld,
                 returned, frame>>
  /\ UNCHANGED <<calcVars, fenceVars, waitVars, adapterVars, resVars,
                 glVars, loopVars>>

\* HandleNewSample: gst_sample_unref(sample); return GST_FLOW_OK.
CbUnref ==
  /\ cbPc = "replaced"
  /\ refs' = [refs EXCEPT ![new_buffer] = @ - 1]
  /\ new_buffer' = nullptr
  /\ cbPc' = "idle"
  /\ UNCHANGED <<camVariant, buffer_, mutex_, appPc, buffer, nSamples,
                 lastStored, framesHeld,
                 returned, frame>>
  /\ UNCHANGED <<calcVars, fenceVars, waitVars, adapterVars, resVars,
                 glVars, loopVars>>

\* GetFrame: absl::MutexLock lock(&mutex_).
GetFrameLock ==
  /\ appPc = "idle"
  /\ mutex_ = "free"
  /\ mutex_' = "GetFrame"
  /\ appPc' = "locked"
  /\ UNCHANGED <<camVariant, buffer_, cbPc, new_buffer, buffer, refs,
                 nSamples, lastStored, framesHeld,
                 returned, frame>>
  /\ UNCHANGED <<calcVars, fenceVars, waitVars, adapterVars, resVars,
                 glVars, loopVars>>

\* GetFrame: AwaitWithTimeout(HaveBuffer) gives up the mutex while the slot
\* is empty.
GetFrameWait ==
  /\ appPc = "locked"
  /\ buffer_ = nullptr
  /\ mutex_' = "free"
  /\ appPc' = "waiting"
  /\ UNCHANGED <<camVariant, buffer_, cbPc, new_buffer, buffer, refs,
                 nSamples, lastStored, framesHeld,
                 returned, frame>>
  /\ UNCHANGED <<calcVars, fenceVars, waitVars, adapterVars, resVars,
                 glVars, loopVars>>

\* GetFrame: AwaitWithTimeout takes the mutex again, because HaveBuffer
\* holds or because the timeout has passed (timeout = TRUE).
GetFrameWake(timeout) ==
  /\ appPc = "waiting"
  /\ mutex_ = "free"
  /\ timeout \/ buffer_ # nullptr
  /\ mutex_' = "GetFrame"
  /\ appPc' = "awake"
  /\ UNCHANGED <<camVariant, buffer_, cbPc, new_buffer, buffer, refs,
                 nSamples, lastStored, framesHeld,
                 returned, frame>>
  /\ UNCHANGED <<calcVars, fenceVars, waitVars, adapterVars, resVars,
                 glVars, loopVars>>

\* GetFrame, line 101: buffer_ = nullptr.
TakeSlot_Kept(slot) == slot
TakeSlot(slot) == nullptr

\* GetFrame: buffer = buffer_; buffer_ = nullptr; end of the locked scope.
GetFrameTake ==
  /\ \/ appPc = "awake"
     \/ appPc = "locked" /\ buffer_ # nullptr
  /\ buffer' = buffer_
  /\ buffer_' = TakeSlot(buffer_)
  /\ mutex_' = "free"
  /\ appPc' = "taken"
  /\ UNCHANGED <<camVariant, cbPc, new_buffer, refs, nSamples, lastStored,
                 framesHeld,
                 returned, frame>>
  /\ UNCHANGED <<calcVars, fenceVars, waitVars, adapterVars, resVars,
                 glVars, loopVars>>

\* GetFrame returns: nullptr without a buffer; in demo_gst a copy of the
\* pixels, the buffer being unreferenced; in demo_run_graph_main an
\* ImageFrame that wraps the mapped buffer and unreferences it in its
\* deleter.
GetFrameReturn ==
  /\ appPc = "taken"
  /\ IF buffer = nullptr
     THEN UNCHANGED <<refs, framesHeld>>
     ELSE IF camVariant = "demo_gst"
     THEN /\ refs' = [refs EXCEPT ![buffer] = @ - 1]
          /\ UNCHANGED framesHeld
     ELSE /\ framesHeld' = framesHeld \cup {buffer}
          /\ UNCHANGED refs
  /\ frame' = buffer
  /\ returned' = IF buffer = nullptr THEN returned
                 ELSE [returned EXCEPT ![buffer] = @ + 1]
  /\ buffer' = nullptr
  /\ appPc' = "idle"
  /\ UNCHANGED <<camVariant, buffer_, mutex_, cbPc, new_buffer, nSamples,
                 lastStored>>
  /\ UNCHANGED <<calcVars, fenceVars, waitVars, adapterVars, resVars,
                 glVars, loopVars>>

\* The deleter of an ImageFrame GetFrame made (demo_run_graph_main lines
\* 123-126): gst_buffer_unmap, gst_buffer_unref.
FrameDeleter(b) ==
  /\ b \in framesHeld
  /\ framesHeld' = framesHeld \ {b}
  /\ refs' = [refs EXCEPT ![b] = @ - 1]
  /\ UNCHANGED <<camVariant, buffer_, mutex_, cbPc, new_buffer, appPc,
                 buffer, nSamples, lastStored,
                 returned, frame>>
  /\ UNCHANGED <<calcVars, fenceVars, waitVars, adapterVars, resVars,
                 glVars, loopVars>>

\* ~SimpleGstCamera (demo_run_graph_main lines 136-140, demo_gst lines
\* 111-114): Stop() ends the streaming thread, then the appsink and the
\* pipeline are unreferenced.  buffer_ is not touched.
CamDtor ==
  /\ camVariant # "none"
  /\ appPc = "idle"
  /\ cbPc = "idle"
  /\ appPc' = "destroyed"
  /\ cbPc' = "stopped"
  /\ UNCHANGED <<camVariant, buffer_, mutex_, new_buffer, buffer, refs,
                 nSamples, lastStored, framesHeld, returned, frame>>
  /\ UNCHANGED <<calcVars, fenceVars, waitVars, adapterVars, resVars,
                 glVars, loopVars>>

\* ================================== the frame loop of RunMPPGraph (CPU)
\* Lines 219-221: size_t frame_timestamp = 0, and the loop is entered.
LoopInit ==
  /\ loopPc = "grab"
  /\ frame_timestamp = 0
  /\ cpuIn = <<>>

\* mediapipe::Timestamp(frame_timestamp++) (line 230): the value the
\* packet gets, and the variable afterwards.
PostIncrement_Stuck(ts) == [value |-> ts, next |-> ts]
PostIncrement(ts) == [value |-> ts, next |-> ts + 1]

\* Lines 223-224: camera.GetFrame() and the CHECK on its result; got is
\* whether the camera had a frame within the timeout.
LoopGetFrame(got) ==
  /\ loopPc = "grab"
  /\ frame_timestamp < MaxSamples
  /\ loopPc' = IF got THEN "have_frame" ELSE "ABORTED"
  /\ UNCHANGED <<frame_timestamp, cpuIn>>
  /\ UNCHANGED <<calcVars, fenceVars, waitVars, adapterVars, resVars,
                 glVars, camVars>>

\* Lines 227-230: AddPacketToInputStream at Timestamp(frame_timestamp++);
\* an error status ends RunMPPGraph.
LoopSubmit(ok) ==
  /\ loopPc = "have_frame"
  /\ LET ts == PostIncrement(frame_timestamp)
     IN  /\ frame_timestamp' = ts.next
         /\ cpuIn' = IF ok THEN Append(cpuIn, ts.value) ELSE cpuIn
  /\ loopPc' = IF ok THEN "poll" ELSE "returned"
  /\ UNCHANGED <<calcVars, fenceVars, waitVars, adapterVars, resVars,
                 glVars, camVars>>

\* Lines 233-248: poller.Next; the loop ends when it fails or when a key
\* is pressed.
LoopPoll(ok, key) ==
  /\ loopPc = "poll"
  /\ loopPc' = IF ok /\ ~key THEN "grab" ELSE "shutdown"
  /\ UNCHANGED <<frame_timestamp, cpuIn>>
  /\ UNCHANGED <<calcVars, fenceVars, waitVars, adapterVars, resVars,
                 glVars, camVars>>

\* Lines 251-254: CloseInputStream and WaitUntilDone.
LoopShutdown ==
  /\ loopPc = "shutdown"
  /\ loopPc' = "returned"
  /\ UNCHANGED <<frame_timestamp, cpuIn>>
  /\ UNCHANGED <<calcVars, fenceVars, waitVars, adapterVars, resVars,
                 glVars, camVars>>

Init ==
  /\ CalcInit /\ FenceInit /\ WaitInit /\ AdapterInit /\ DmaInit
  /\ GlInit /\ CamInit /\ LoopInit

Next ==
  \/ \E key \in Keys, status \in FbStatuses, ts \in InputTimestamps :
       ProcessGpuBuffer(key, status, ts)
  \/ \E ts \in InputTimestamps : \E pkt \in ImageFramePackets(ts) :
       ProcessImageFrame(pkt)
  \/ \E ts \in InputTimestamps : ProcessOther(ts)
  \/ \E f \in FrameIds : ConsumerRead(f)
  \/ \E f \in FrameIds : Deleter(f)
  \/ \E f \in FrameIds : ReleaseTask(f)
  \/ \E s \in SyncIds : GpuSignal(s)
  \/ Close

Spec == Init /\ [][Next]_vars

WaitNext ==
  \/ CallSetEGLSync
  \/ CallDestroyEGLSync
  \/ WaitEGLSyncEnter
  \/ WaitEGLSyncPoll
  \/ WaitEGLSyncDone
  \/ \E s \in SyncIds : GpuSignal(s)
  \/ \E s \in SyncIds : GpuLost(s)

WaitSpec == Init /\ [][WaitNext]_vars

\* The waiting thread keeps running: the loop of WaitEGLSync is not starved.
FairWaitSpec == WaitSpec /\ WF_vars(WaitEGLSyncPoll)

\* The streaming thread in the pad probe, the compute graph and Stop.
ProbeNext ==
  \/ \E buf \in Buffers(nBuffers + 1) : PadProbe(buf)
  \/ Import
  \/ GraphProcess
  \/ GraphDone
  \/ Poll
  \/ Rewrap
  \/ Release
  \/ Stop

AdapterNext ==
  \/ ProbeNext
  \/ \E n \in 1..MaxBuffers : DownstreamUnref(n)

AdapterSpec == Init /\ [][AdapterNext]_vars

\* The streaming thread keeps running through the probe, and the compute
\* graph, while running, processes every packet submitted to it.
FairAdapterSpec ==
  /\ AdapterSpec
  /\ WF_vars(Import) /\ WF_vars(Poll) /\ WF_vars(Rewrap) /\ WF_vars(Release)
  /\ WF_vars(GraphProcess)

DmaNext ==
  \/ \E key \in Keys, format \in AllFormats, supported, bo, created \in BOOLEAN,
        fd \in Fds \cup {-1}, addr \in Addrs \cup {MAP_FAILED} :
       DmaAcquire(key, format, supported, bo, fd, created, addr)
  \/ DmaSetSync
  \/ DmaDtor
  \/ \E s \in SyncIds : GpuSignal(s)

DmaSpec == Init /\ [][DmaNext]_vars

GlSourceNext ==
  \/ \E key \in Keys, format \in GlFormats, plane \in Planes :
       GlCreateSourceTexture(key, format, plane)
  \/ \E key \in Keys, format \in GlFormats :
       GlCreateSourceTextureImageFrame(key, format)

GlNext ==
  \/ \E key \in Keys, format \in GlFormats :
       GlCreateDestinationTexture(key, format)
  \/ GlSourceNext
  \/ \E t \in TexIds, status \in FbStatuses, debug \in BOOLEAN :
       GlBindFramebuffer(t, status, debug)
  \/ GlUnbindFramebuffer
  \/ \E t \in TexIds, size \in ReadSizes : GlReadTexture(t, size)

GlSpec == Init /\ [][GlNext]_vars

\* The two places that take frames in: the pad probe and the helper's
\* source-texture mapping.
InputNext == ProbeNext \/ GlSourceNext

InputSpec == Init /\ [][InputNext]_vars

LoopNext ==
  \/ \E got \in BOOLEAN : LoopGetFrame(got)
  \/ \E ok \in BOOLEAN : LoopSubmit(ok)
  \/ \E ok, key \in BOOLEAN : LoopPoll(ok, key)
  \/ LoopShutdown

\* The two places that stamp packets for the graph: the pad probe of the
\* GPU demo and the frame loop of the CPU demo.
TimestampNext == ProbeNext \/ LoopNext

TimestampSpec == Init /\ [][TimestampNext]_vars

CamNext ==
  \/ \E variant \in CamVariants : CamStart(variant)
  \/ CbPull
  \/ CbLock
  \/ CbReplace
  \/ CbUnref
  \/ GetFrameLock
  \/ GetFrameWait
  \/ \E timeout \in BOOLEAN : GetFrameWake(timeout)
  \/ GetFrameTake
  \/ GetFrameReturn
  \/ \E b \in SampleIds : FrameDeleter(b)
  \/ CamDtor

CamSpec == Init /\ [][CamNext]_vars

\* ================================================================ claims
\* Bundles attached to an output frame whose deleter has not run.
InFlightBundles == {frames[f].bundle : f \in Outstanding}

\* Live bundles attached to no such frame.
IdleBundles ==
  {b \in BundleIds : bundles[b].st = "live" /\ b \notin InFlightBundles}

\* Number of parties holding bundle b: in-flight frames plus the idle slot.
Owners(b) ==
  Cardinality({f \in Outstanding : frames[f].bundle = b})
    + (IF dma_texture_ = b THEN 1 ELSE 0)

\* C1: whenever the consumer has read the pixels of an output frame, a wait
\* on the producer fence created after that frame's render has succeeded.
C1_ReadOnlyAfterFenceWait ==
  \A f \in FrameIds : frames[f].read => frames[f].sync \in waited

C3_AllocatedAtMostOnce ==
  (~hist.overlap /\ ~hist.mixed) => nBundles <= 1

C3_SecondFrameRecycled ==
  /\ ~hist.overlap /\ ~hist.mixed
  /\ nFrames >= 2
  /\ nBundles = 1

\* C4: a Process call that finds an idle cached bundle of another (width,
\* height, format), with no frame outstanding, destroys the cached bundle
\* and allocates exactly one new bundle.
C4_MismatchDiscardsCached ==
  [][(/\ nFrames' = nFrames + 1
      /\ Outstanding = {}
      /\ dma_texture_ # NoBundle
      /\ frames'[nFrames'].key # bundles[dma_texture_].key)
     => (/\ bundles'[dma_texture_].st = "destroyed"
         /\ nBundles' = nBundles + 1)]_vars

\* C5: the bundle behind every output frame was created for that frame's
\* width, height and format, with a stride and map size that cover it.
C5_BundleMatchesFrame ==
  \A f \in Outstanding :
    LET b == bundles[frames[f].bundle]
        k == frames[f].key
    IN  /\ b.key = k
        /\ frames[f].stride >= k.w * BytesPerPixel(k.fmt)
        /\ k.h * frames[f].stride <= b.map_size

\* C6: the release task puts the bundle into the idle slot when the slot is
\* empty and destroys it when the slot holds another bundle; at most one
\* idle bundle exists in every reachable state.
C6_ReleaseRecyclesOrDestroys ==
  /\ [](Cardinality(IdleBundles) <= 1)
  /\ [][\A f \in FrameIds :
          (frames[f].st = "releasing" /\ frames'[f].st = "released")
          => LET b == frames[f].bundle
             IN  IF dma_texture_ = NoBundle
                 THEN dma_texture_' = b /\ bundles'[b].st = "live"
                 ELSE /\ dma_texture_' = dma_texture_
                      /\ bundles'[b].st = "destroyed"]_vars

C6_ReleasedIntoFullSlot ==
  /\ ~closed
  /\ dma_texture_ # NoBundle
  /\ \E b \in BundleIds : bundles[b].st = "destroyed"

\* C7: every live bundle has exactly one owner, the idle slot or one
\* in-flight frame, and the slot never points at a destroyed bundle.
C7_SingleOwner ==
  /\ \A b \in BundleIds : bundles[b].st = "live" => Owners(b) = 1
  /\ dma_texture_ # NoBundle => bundles[dma_texture_].st = "live"

C7_SlotAndFrameOwners ==
  /\ dma_texture_ # NoBundle
  /\ Outstanding # {}
  /\ nFrames = 2

\* C8: a call of WaitEGLSync that is waiting eventually returns, also when
\* the platform wait reports a timeout on every attempt.
C8_WaitReturns == (waitPc = "waiting") ~> (waitPc = "returned")

\* C9: when the platform wait ended in an error, what WaitEGLSync hands to
\* its caller differs from what it hands back on success.
C9_ErrorIsDistinguishable ==
  (waitPc = "returned" /\ waitRes = "EGL_FALSE")
    => waitObserved # WaitEGLSyncReturn("EGL_CONDITION_SATISFIED")

FrameOrder == {<<"idle", "CAPTURED">>, <<"RELEASED", "CAPTURED">>,
               <<"CAPTURED", "IMPORTED">>, <<"IMPORTED", "RESULT_READY">>,
               <<"RESULT_READY", "REWRAPPED">>, <<"REWRAPPED", "RELEASED">>}

\* C11: each invocation of HandlePadProbeBuffer calls AddPacketToInputStream
\* once, adding one packet to a running graph, and takes one result from the
\* poller; the per-frame state only moves along CAPTURED, IMPORTED,
\* RESULT_READY, REWRAPPED, RELEASED (or ends in the fatal abort).
C11_StatesInOrder ==
  /\ [](/\ nSubmits <= 1 /\ nPolls <= 1
        /\ adPc = "CAPTURED" => nSubmits = 0 /\ nPolls = 0
        /\ adPc = "IMPORTED" => nSubmits = 1 /\ nPolls = 0
        /\ adPc \in {"RESULT_READY", "REWRAPPED", "RELEASED"}
             => nSubmits = 1 /\ nPolls = 1)
  /\ [][adPc' # adPc
          => (<<adPc, adPc'>> \in FrameOrder \/ adPc' = "ABORTED")]_vars
  /\ [][(adPc = "CAPTURED" /\ adPc' = "IMPORTED" /\ graph = "running")
          => graphIn' = Append(graphIn, [ts  |-> frame_timestamp_,
                                         tex |-> in_buf.tex])]_vars

C11_SecondFrameReleased ==
  /\ adPc = "RELEASED"
  /\ nBuffers = 2
  /\ nSubmits = 1
  /\ nPolls = 1

\* C12: the replacement buffer has the timestamps and flags of the input
\* buffer and a video meta with the input's width, height, format and flags;
\* its only memory wraps the texture of the graph's output packet.
C12_ReplacementCarriesInput ==
  adPc \in {"REWRAPPED", "RELEASED"}
    => /\ out_buf.pts = in_buf.pts
       /\ out_buf.flags = in_buf.flags
       /\ out_buf.meta = in_buf.meta
       /\ out_buf.memory = <<out_packet.tex>>
       /\ out_packet.tex \in GraphTexIds

C12_RewrappedFlaggedBuffer ==
  /\ adPc = "REWRAPPED"
  /\ in_buf.flags = "DISCONT"
  /\ in_buf.pts = 2
  /\ in_buf.meta.height = 2
  /\ out_buf.memory = <<12>>

\* C13: at most one packet is inside the graph or its poller at any time;
\* the result in hand is the result of the frame submitted last; between
\* invocations nothing is queued and every captured frame was submitted.
C13_OneFrameInFlight ==
  /\ Len(graphIn) + Len(graphOut) <= 1
  /\ adPc = "RESULT_READY" => out_packet.ts = frame_timestamp_ - 1
  /\ adPc \in {"idle", "RELEASED"}
       => /\ graphIn = <<>> /\ graphOut = <<>>
          /\ frame_timestamp_ = nBuffers

C13_SecondFrameSubmitted ==
  /\ adPc = "IMPORTED"
  /\ frame_timestamp_ = 2
  /\ Len(graphIn) = 1
  /\ graphOut = <<>>

\* C14: a frame the consumer holds has its bundle inside a CPU access
\* window; the idle bundle is outside one; the release task of a frame ends
\* the window it finds open; a window opens only with a new output frame on a
\* bundle that had none open; and while a bundle's window is open nothing
\* but that end touches the bundle (no recycle, re-render or destroy).
C14_CpuAccessBracketed ==
  /\ [](/\ \A f \in Outstanding : bundles[frames[f].bundle].cpu
        /\ \A b \in BundleIds : bundles[b].cpu => bundles[b].st = "live"
        /\ dma_texture_ # NoBundle => ~bundles[dma_texture_].cpu)
  /\ [][\A f \in FrameIds :
          (frames[f].st = "releasing" /\ frames'[f].st = "released")
          => bundles[frames[f].bundle].cpu
             /\ ~bundles'[frames[f].bundle].cpu]_vars
  /\ [][\A b \in BundleIds :
          (~bundles[b].cpu /\ bundles'[b].cpu)
          => (nFrames' = nFrames + 1 /\ frames'[nFrames'].bundle = b)]_vars
  /\ [][\A b \in BundleIds :
          (bundles[b].cpu /\ (bundles'[b] # bundles[b] \/ dma_texture_' = b))
          => (/\ ~bundles'[b].cpu
              /\ \E f \in FrameIds : /\ frames[f].bundle = b
                                      /\ frames[f].st = "releasing"
                                      /\ frames'[f].st = "released")]_vars

C14_SecondWindowOnRecycledBundle ==
  /\ nFrames = 2
  /\ nBundles = 1
  /\ frames[1].st = "released"
  /\ frames[2].st = "held"
  /\ bundles[frames[2].bundle].cpu

\* Fence objects that were created and not destroyed.
LiveSyncs == {s \in SyncIds : eglSyncs[s] \in {"pending", "signaled", "lost"}}

\* C15: in the destruction of a bundle the descriptor is closed, and the
\* image destroyed, only when the fence is destroyed and the mapping
\* unmapped; the mapping is unmapped only while the descriptor is open.
C15_FenceAndMappingBeforeDescriptor ==
  /\ [][(plat'.nClose > plat.nClose \/ plat'.nImgDestroy > plat.nImgDestroy)
          => (sync = EGL_NO_SYNC /\ LiveSyncs = {} /\ dma.data = nullptr)]_vars
  /\ [][plat'.nMunmap > plat.nMunmap
          => (dma.dma_fd >= 0 /\ plat.fds[dma.dma_fd] = "open")]_vars

C15_BundleWithFenceDestroyed ==
  /\ dmaPc = "dead"
  /\ plat.nClose = 1
  /\ plat.nMunmap = 1
  /\ plat.nImgDestroy = 1
  /\ \E s \in SyncIds : eglSyncs[s] = "destroyed"

\* C16: once the calculator's Close has run, nothing of the earlier teardown
\* steps is left to do: no output frame is in flight, no fence is live and
\* no DMA bundle is live.
C16_NothingLiveAfterClose ==
  closed => /\ Outstanding = {}
            /\ LiveSyncs = {}
            /\ \A b \in BundleIds : bundles[b].st # "live"

\* C17: the only fence that is created and not destroyed is the one in the
\* caller's variable; when the variable changes, the fence it held has been
\* destroyed and the fence it holds now was never handed out before.
C17_AtMostOneLiveFence ==
  /\ [](LiveSyncs \subseteq {sync})
  /\ [][sync' # sync
          => /\ sync # EGL_NO_SYNC => eglSyncs'[sync] = "destroyed"
             /\ sync' # EGL_NO_SYNC => eglSyncs[sync'] = "free"]_vars

C17_SecondFenceReplacedFirst ==
  /\ sync = 2
  /\ eglSyncs[1] = "destroyed"
  /\ eglSyncs[2] \in {"pending", "signaled"}

\* C18: DestroyEGLImageDMA applied twice gives what one application gives;
\* on a null image and descriptor it changes nothing; applied to a bundle
\* CreateEGLImageDMA has set up it closes the exported descriptor.
C18_DestroyIdempotentAndCloses ==
  dmaPc # "fatal"
    => LET r1 == DestroyEGLImageDMA(plat, dma)
           r2 == DestroyEGLImageDMA(r1.plat, r1.tex)
       IN  /\ r2 = r1
           /\ (dma.image = EGL_NO_IMAGE /\ dma.dma_fd <= 0)
                => r1 = [plat |-> plat, tex |-> dma]
           /\ dmaPc = "ready" => r1.plat.fds[dma.dma_fd] = "closed"

\* C19: UnmapDMA on a null pointer changes nothing; after a successful
\* unmap the pointer is null; a second call performs no second munmap.
C19_UnmapIdempotent ==
  dmaPc # "fatal"
    => \A res, res2 \in {0, -1} :
         LET r1 == UnmapDMA(plat, dma, res)
             r2 == UnmapDMA(r1.plat, r1.tex, res2)
         IN  /\ dma.data = nullptr
                  => r1 = [ok |-> TRUE, plat |-> plat, tex |-> dma]
             /\ (dma.data # nullptr /\ res = 0)
                  => /\ r1.ok
                     /\ r1.tex.data = nullptr
                     /\ r1.plat.nMunmap = plat.nMunmap + 1
                     /\ r1.plat.maps[dma.data] = "unmapped"
             /\ r1.ok => r2 = r1

C19_UnmappedByDestructor ==
  /\ dmaPc = "dtor"
  /\ DtorOrder[dtorAt] = "UnmapDMA"
  /\ dma.data = nullptr
  /\ plat.nMunmap = 1

\* C20: a CreateEGLImageDMA call with a format other than kBGRA32 / kRGB24,
\* or with a format the platform reports unsupported, is fatal and leaves
\* the platform untouched (no buffer object, no descriptor); a call that
\* succeeds has set the image, the descriptor and the stride.
C20_CreateFailsOrSetsAll ==
  [][(dmaPc \in {"none", "dead"} /\ dmaPc' \in {"ready", "fatal"})
      => /\ (lastCall'.format \notin Formats \/ ~lastCall'.supported)
              => (dmaPc' = "fatal" /\ plat' = plat)
         /\ dmaPc' = "ready"
              => /\ dma'.image # EGL_NO_IMAGE
                 /\ plat'.images[dma'.image] = "live"
                 /\ dma'.dma_fd = lastCall'.fd
                 /\ plat'.fds[dma'.dma_fd] = "open"
                 /\ plat'.nBo = plat.nBo + 1
                 /\ dma'.stride
                      = lastCall'.width * BytesPerPixel(lastCall'.format)]_vars

C20_FatalOnForeignFormat ==
  /\ dmaPc = "fatal"
  /\ lastCall.format = "kGrayFloat32"
  /\ lastCall.supported
  /\ plat.nBo = 0
  /\ \A f \in Fds : plat.fds[f] = "free"

\* C21: a framebuffer status other than complete, seen by the DMA render
\* path of Process, does not terminate the process.
C21_IncompleteFramebufferNotFatal ==
  fb_status = "GL_FRAMEBUFFER_INCOMPLETE_ATTACHMENT" => Running

\* C22: the helper generates at most one framebuffer object; once it has
\* one it keeps it, and no other framebuffer is ever bound by it.
C22_OneFramebuffer ==
  /\ [](nGenFramebuffers <= 1 /\ glBound \in {0, framebuffer_})
  /\ [][framebuffer_ # 0 => framebuffer_' = framebuffer_]_vars

C22_TwoSizesOneFramebuffer ==
  /\ nTextures = 2
  /\ textures[1].height # textures[2].height
  /\ glLast.op = "BindFramebuffer"
  /\ glAttach.name = 2
  /\ nGenFramebuffers = 1

\* C23: after CreateDestinationTexture has returned, the shared framebuffer
\* is bound and the returned texture is its color attachment.
C23_DestinationTextureBound ==
  glLast.op = "CreateDestinationTexture"
    => /\ glBound # 0
       /\ glBound = framebuffer_
       /\ glAttach.name = lastTexture.name

\* C24: a ReadTexture call that returns leaves the color attachment and the
\* viewport as they were before the call; when the texture read is the
\* current attachment the call issues no command that sets either.
C24_ReadTextureRestores ==
  [][(glLast'.op = "ReadTexture" /\ glPc' = "ok")
      => /\ glAttach' = glAttach
         /\ glViewport' = glViewport
         /\ glAttach.name = lastTexture'.name
              => glLast'.cmds = <<"glReadPixels">>]_vars

C24_ReadOfUnattachedTexture ==
  /\ glLast.op = "ReadTexture"
  /\ glPc = "ok"
  /\ Len(glLast.cmds) = 5
  /\ glAttach.name # 0
  /\ glAttach.name # lastTexture.name
  /\ glViewport.h # lastTexture.height

\* Number of glReadPixels commands in a command list.
PixelReads(cmds) ==
  Cardinality({i \in 1..Len(cmds) : cmds[i] = "glReadPixels"})

\* C25: ReadTexture with an output size below width * height * 4, or with
\* no framebuffer bound, is fatal, issues no command and leaves attachment
\* and viewport alone; in every other case it issues one glReadPixels.
C25_ReadTextureSizeChecked ==
  [][(glLast'.op = "ReadTexture" /\ glPc = "ok")
      => IF \/ glLast'.arg < lastTexture'.width * lastTexture'.height * 4
            \/ glBound = 0
         THEN /\ glPc' = "fatal"
              /\ glLast'.cmds = <<>>
              /\ glAttach' = glAttach
              /\ glViewport' = glViewport
         ELSE /\ glPc' = "ok"
              /\ PixelReads(glLast'.cmds) = 1]_vars

C25_FatalOnShortBuffer ==
  /\ glLast.op = "ReadTexture"
  /\ glPc = "fatal"
  /\ glLast.arg = 15
  /\ lastTexture.height = 2
  /\ glBound # 0

\* C26: after BindFramebuffer(dst) the helper's framebuffer is bound, its
\* color attachment is dst's texture and the viewport is (0, 0, dst.width,
\* dst.height); the attachment is the texture bound last.
C26_BindFramebufferBinds ==
  [][glLast'.op = "BindFramebuffer"
      => /\ framebuffer_' # 0
         /\ glBound' = framebuffer_'
         /\ glAttach' = [name |-> lastTexture'.name,
                         target |-> lastTexture'.target]
         /\ glViewport' = [x |-> 0, y |-> 0, w |-> lastTexture'.width,
                           h |-> lastTexture'.height]]_vars

C26_SecondTextureBound ==
  /\ glLast.op = "BindFramebuffer"
  /\ glAttach.name = 2
  /\ glViewport.h = textures[2].height
  /\ textures[1].height # textures[2].height
  /\ glBound = framebuffer_

\* C27: every texture the helper has mapped has both filters nearest when
\* its internal format is GL_R32F or GL_RGBA32F and linear otherwise, and
\* both wrap modes clamp-to-edge.
C27_ParamsFollowInternalFormat ==
  \A t \in TexIds :
    textures[t].st = "live"
      => LET f == GlTextureInfoForGpuBufferFormat(textures[t].format)
             filter == IF f \in {"GL_R32F", "GL_RGBA32F"}
                       THEN "GL_NEAREST" ELSE "GL_LINEAR"
         IN  /\ textures[t].params.min = filter
             /\ textures[t].params.mag = filter
             /\ textures[t].params.wrap_s = "GL_CLAMP_TO_EDGE"
             /\ textures[t].params.wrap_t = "GL_CLAMP_TO_EDGE"

C27_FloatAndByteTextures ==
  /\ textures[1].format = "kGrayFloat32"
  /\ textures[1].params.min = "GL_NEAREST"
  /\ textures[2].format = "kBGRA32"
  /\ textures[2].params.mag = "GL_LINEAR"

\* The calls that return a source texture.
SourceOps == {"CreateSourceTexture", "CreateSourceTexture(ImageFrame)"}

\* C28 as stated: a CreateSourceTexture call that returns has put WaitOnGpu
\* into the command stream ahead of every bind of the texture, and the
\* texture it returns is marked as for reading.
C28_WaitBeforeBind ==
  (glLast.op \in SourceOps /\ glPc = "ok")
    => /\ lastTexture.for_reading
       /\ glLast.cmds # <<>>
       /\ glLast.cmds[1] = "WaitOnGpu"

\* C28: a CreateSourceTexture call that returns has put WaitOnGpu into the
\* command stream, with the bind that maps the texture after it, and the
\* texture it returns is marked as for reading; for a GpuBuffer the wait
\* is ahead of every command of the call.
C28_WaitBeforeReturn ==
  (glLast.op \in SourceOps /\ glPc = "ok")
    => /\ lastTexture.for_reading
       /\ \E i \in 1..Len(glLast.cmds) :
            /\ glLast.cmds[i] = "WaitOnGpu"
            /\ i < Len(glLast.cmds)
            /\ glLast.cmds[i + 1] = "glBindTexture"
       /\ glLast.op = "CreateSourceTexture" => glLast.cmds[1] = "WaitOnGpu"

C28_ImageFrameBoundBeforeWait ==
  /\ glLast.op = "CreateSourceTexture(ImageFrame)"
  /\ glPc = "ok"
  /\ glLast.cmds[1] = "glBindTexture"
  /\ glLast.cmds[4] = "WaitOnGpu"
  /\ lastTexture.for_reading

\* C29: mapping a GPU buffer with a plane other than 0 is fatal and maps no
\* texture; a buffer whose video meta has a plane count other than 1 ends
\* the probe in the fatal abort with nothing submitted to the graph.
C29_SinglePlaneOnly ==
  /\ [](adPc \in {"IMPORTED", "RESULT_READY", "REWRAPPED", "RELEASED"}
          => in_buf.n_planes = 1)
  /\ [][(adPc = "CAPTURED" /\ in_buf.n_planes # 1 /\ adPc' # adPc)
          => /\ adPc' = "ABORTED"
             /\ graphIn' = graphIn
             /\ nSubmits' = 0]_vars
  /\ [][(glPc = "ok" /\ glLast'.op = "CreateSourceTexture"
          /\ glLast'.arg # 0 /\ glLast' # glLast)
          => /\ glPc' = "fatal"
             /\ glLast'.cmds = <<>>
             /\ textures' = textures
             /\ nTextures' = nTextures]_vars

C29_BothAborted ==
  /\ glPc = "fatal"
  /\ glLast.arg = 1
  /\ adPc = "ABORTED"
  /\ in_buf.n_planes = 2
  /\ in_buf.glmem
  /\ graphIn = <<>>

\* C30: the slot holds the buffer stored last or nothing; a new sample
\* replaces the buffer in the slot, which loses the slot's reference; what
\* GetFrame takes is what the slot held, and the slot is empty afterwards.
C30_MostRecentWins ==
  /\ [](buffer_ # nullptr => buffer_ = lastStored)
  /\ [][(cbPc = "locked" /\ cbPc' = "replaced")
          => /\ buffer_' = new_buffer
             /\ lastStored' = new_buffer
             /\ (buffer_ # nullptr /\ buffer_ # new_buffer)
                  => refs'[buffer_] = refs[buffer_] - 1]_vars
  /\ [][(appPc # "taken" /\ appPc' = "taken")
          => /\ buffer' = buffer_
             /\ buffer_' = nullptr
             /\ buffer' # nullptr => buffer' = lastStored]_vars

C30_NewerSampleReplacedOlder ==
  /\ appPc = "taken"
  /\ buffer = 3
  /\ refs[2] = 0
  /\ 2 \notin framesHeld
  /\ refs[1] = 1
  /\ 1 \in framesHeld

\* C31: the last Process call put its ImageFrame input on the output
\* unchanged, or one ImageFrame with the timestamp, width, height and format
\* of its GpuBuffer input, or nothing and InvalidArgument for another type.
C31_OneOutputPerInput ==
  LET input == procLast.input
      out   == procLast.out
  IN  /\ input.type = "ImageFrame" => out = <<input>>
      /\ input.type = "GpuBuffer"
           => /\ Len(out) = 1
              /\ out[1].type = "ImageFrame"
              /\ out[1].ts = input.ts
              /\ out[1].width = input.width
              /\ out[1].height = input.height
              /\ out[1].format = ImageFormatForGpuBufferFormat(input.format)
      /\ input.type = "other"
           => /\ out = <<>>
              /\ ~closed => lastStatus = "InvalidArgument"

\* C32: once Close has run and every output frame has been released, every
\* bundle that was allocated has been destroyed; a frame not yet released
\* has a bundle that has not been destroyed.
C32_EveryBundleDestroyed ==
  /\ \A f \in Outstanding : bundles[frames[f].bundle].st = "live"
  /\ (closed /\ Outstanding = {})
       => \A b \in 1..nBundles : bundles[b].st = "destroyed"

\* Position of the first command c in a command list, 0 when absent.
Pos(cmds, c) ==
  IF \E i \in 1..Len(cmds) : cmds[i] = c
  THEN CHOOSE i \in 1..Len(cmds) :
         cmds[i] = c /\ \A j \in 1..(i - 1) : cmds[j] # c
  ELSE 0

\* C33: a Process call that made an output frame issued the render, then
\* SetSync, then the add to the output stream; and the fence of the bundle
\* of an unreleased frame is still the one created for that frame (no later
\* render and SetSync on the bundle), and it has not been destroyed.
C33_FenceAfterRender ==
  /\ procLast.out # <<>> /\ procLast.input.type = "GpuBuffer"
       => /\ 0 < Pos(procLast.cmds, "GlRender")
          /\ Pos(procLast.cmds, "GlRender") < Pos(procLast.cmds, "SetSync")
          /\ Pos(procLast.cmds, "SetSync") < Pos(procLast.cmds, "Outputs.Add")
  /\ \A f \in Outstanding :
       /\ frames[f].sync # EGL_NO_SYNC
       /\ bundles[frames[f].bundle].sync = frames[f].sync
       /\ eglSyncs[frames[f].sync] \in {"pending", "signaled"}
       /\ \A g \in Outstanding : g # f => frames[g].bundle # frames[f].bundle

C33_FenceRecreatedOnRecycledBundle ==
  /\ frames[1].st = "released"
  /\ frames[2].st = "held"
  /\ frames[2].bundle = 1
  /\ frames[2].sync = 2
  /\ eglSyncs[1] = "destroyed"
  /\ procLast.cmds = ProcessCmds

\* C36: while the GL memory wrapped around an output packet's texture is
\* alive the packet is alive; the packet is deleted when that memory is
\* destroyed, and once; the input buffer is unreferenced once, and the
\* probe info carries the replacement buffer by then.
C36_PacketLivesWithMemory ==
  /\ \A n \in 1..MaxBuffers :
       /\ outMem[n].mem = "alive" => outMem[n].packet = "alive"
       /\ outMem[n].mem = "destroyed" <=> outMem[n].packet = "deleted"
       /\ outMem[n].deletes = (IF outMem[n].mem = "destroyed" THEN 1 ELSE 0)
  /\ in_buf_ref \in {0, 1}
  /\ (adPc # "idle" /\ in_buf_ref = 0)
       => (adPc = "RELEASED" /\ info_data = "out_buf")

C36_FirstPacketDeletedSecondAlive ==
  /\ outMem[1].packet = "deleted"
  /\ outMem[1].deletes = 1
  /\ outMem[2].mem = "alive"
  /\ outMem[2].packet = "alive"
  /\ adPc = "RELEASED"
  /\ in_buf_ref = 0

\* Timestamps of the packets in a queue, oldest first.
TsOf(q) == [i \in 1..Len(q) |-> q[i].ts]

\* C37: both counters start at 0; a packet handed to the graph carries the
\* counter's value and the counter then goes up by one, and it changes at
\* no other time; so the packets in the graph's queues carry consecutive
\* timestamps below the counter, and the n-th packet of the CPU loop
\* carries n - 1.
C37_TimestampsCountUp ==
  /\ [](nBuffers = 0 => frame_timestamp_ = 0)
  /\ [](LET ts == TsOf(graphOut) \o TsOf(graphIn)
        IN  /\ \A i \in 1..Len(ts) : ts[i] < frame_timestamp_
            /\ \A i \in 1..(Len(ts) - 1) : ts[i + 1] = ts[i] + 1)
  /\ [][frame_timestamp_' # frame_timestamp_
          => /\ frame_timestamp_' = frame_timestamp_ + 1
             /\ graph = "running"
                  => graphIn' = Append(graphIn, [ts  |-> frame_timestamp_,
                                                 tex |-> in_buf.tex])]_vars
  /\ [][graphIn' # graphIn /\ Len(graphIn') > Len(graphIn)
          => frame_timestamp_' = frame_timestamp_ + 1]_vars
  /\ [](\A i \in 1..Len(cpuIn) : cpuIn[i] = i - 1)
  /\ [](Len(cpuIn) <= frame_timestamp)
  /\ [][cpuIn' # cpuIn
          => /\ cpuIn' = Append(cpuIn, frame_timestamp)
             /\ frame_timestamp' = frame_timestamp + 1]_vars

C37_SecondPacketsStamped ==
  /\ cpuIn = <<0, 1>>
  /\ frame_timestamp = 2
  /\ frame_timestamp_ = 2
  /\ Len(graphIn) = 1
  /\ graphIn[1].ts = 1

\* C34: no buffer is returned by more than one GetFrame call; what a call
\* returns is what the slot held when its wait ended, nothing when the slot
\* was empty then, and the slot is empty afterwards; a sample that arrives
\* while a call waits stays in the slot, or a newer one does, until that
\* call takes it.
C34_ReturnedAtMostOnce ==
  /\ [](\A b \in SampleIds : returned[b] <= 1)
  /\ [][(appPc \in {"awake", "locked"} /\ appPc' = "taken")
          => /\ buffer' = buffer_
             /\ buffer_' = nullptr]_vars
  /\ [][(appPc = "taken" /\ appPc' = "idle")
          => /\ frame' = buffer
             /\ buffer # nullptr => returned'[buffer] = returned[buffer] + 1]_vars
  /\ [][(appPc \in {"waiting", "awake"} /\ buffer_ # nullptr)
          => \/ buffer_' # nullptr /\ appPc' \in {"waiting", "awake"}
             \/ appPc' = "taken" /\ buffer' # nullptr /\ buffer_' = nullptr]_vars

C34_SecondCallGotSecondSample ==
  /\ appPc = "idle"
  /\ frame = 2
  /\ returned = [b \in SampleIds |-> IF b \in {1, 2} THEN 1 ELSE 0]
  /\ buffer_ = nullptr
  /\ nSamples = 2

\* C35: a buffer's reference count never goes below zero; a buffer whose
\* mapped data a consumer still reads (a live ImageFrame around it, or the
\* copy in GetFrame under way) is referenced; and once the camera object is
\* destroyed and every frame is gone, no buffer is referenced.
C35_ReferencesBalanced ==
  /\ \A b \in SampleIds : refs[b] >= 0
  /\ \A b \in framesHeld : refs[b] >= 1
  /\ (appPc = "taken" /\ buffer # nullptr) => refs[buffer] >= 1
  /\ (appPc = "destroyed" /\ framesHeld = {})
       => \A b \in SampleIds : refs[b] = 0

====
